---- MODULE Spec2Model ----
(***************************************************************************)
(* Model of the halo cluster manager's lifecycle engine                    *)
(* (src/src/resource.rs, src/src/host.rs, src/src/remote/*.rs).            *)
(*                                                                         *)
(* One resource group is modelled: a tree of resources on one home host,   *)
(* the remote agent that runs the resource-agent scripts for it, and the   *)
(* manager task that drives the group in observe mode or manage mode.      *)
(* RPCs are the suspension points of the manager task: between the moment  *)
(* an RPC is issued and the moment its reply is consumed, other RPCs of    *)
(* the same join_all may complete, in any order, and the environment may   *)
(* stop a resource underneath the manager.                                 *)
(***************************************************************************)
EXTENDS Integers, Sequences, FiniteSets, TLC

VARIABLES
    cfg,         \* commands::Cli flags + whether the root has a failover node
    dependents,  \* Resource.dependents: resource -> sequence of resources
    pc,          \* position of the group's task
    status,      \* Resource.status (Mutex<ResourceStatus>), per resource
    overall,     \* ResourceGroup.overall_status
    hostStatus,  \* Host.status of the home node
    actual,      \* what the resource-agent script would report on the host
    starting,    \* resources whose Start RPC is in flight
    log,         \* context.out_stream: the lines written so far
    rpcs,        \* history: RPCs issued in the current tick
    failed,      \* history: resources whose Start did not succeed this tick
    lastCalls,   \* history: set_status calls made by the last step, in order
    consumed,    \* history: RPC outcomes the manager consumed in the last step
    faults,      \* number of RPC outcomes that differed from a healthy agent
    stops,       \* number of external stops so far
    episode,     \* history: the last external stop and the log length then
    since,       \* history: steps of the manager task since the last stop
    fences,      \* history: Host::do_fence requests made by the group's task
    config,      \* config::Config: the parsed configuration document
    iter,        \* iteration order of each host's resource HashMap
    cluster,     \* the result of Cluster::new
    cstatus,     \* Resource.status of every resource of the cluster
    mgmt,        \* HaloMgmtImpl::monitor: the reply being built
    writes,      \* number of status stores made while the cluster is served
    input,       \* the function or command that is called, with its arguments
    output,      \* what the call returned, once it has returned
    agents,      \* per address, the requests the remote agent there received
    made,        \* history: the RPC wrapper calls made so far, in order
    proc,        \* the manager process: position, exit status, stderr
    buf,         \* lib.rs Buffer, the threads that write and read it
    lk,          \* the status mutexes and the two threads that take them
    grp,         \* the resource groups of one Cluster::main_loop task
    cmd          \* the run of the `start` sub-command

\* The state of one resource group's task and of its agent.
engineVars == <<cfg, dependents, pc, status, overall, hostStatus, actual,
                starting, log, rpcs, failed, lastCalls, consumed, faults,
                stops, episode, since, fences>>

\* The state of cluster assembly and of the control channel.
clusterVars == <<config, iter, cluster, cstatus, mgmt, writes>>

\* The state of a single call, of the agents of a cluster and of the manager
\* process.
toolVars == <<input, output, agents, made, proc>>

\* The state of the parts that are explored on their own.
auxVars == <<buf, lk, grp, cmd>>

vars == <<engineVars, clusterVars, toolVars, auxVars>>

-----------------------------------------------------------------------------
(* Bounds of the exploration.                                              *)

\* RPC outcomes that differ from what a healthy agent would answer.
MaxFaults == 1
\* External stops of a resource (TestEnvironment::stop_resource).
MaxStops == 1
\* Steps of the manager task that are counted after an external stop.
RecoverySteps == 4
\* Status stores made by the engine while the control channel is served.
MaxWrites == 2
\* monitor() requests served by the control channel.
MaxRequests == 1

-----------------------------------------------------------------------------
(* ResourceStatus and its order (resource.rs, enum ResourceStatus).        *)

StatusOrder ==
    <<"Unknown", "Unrunnable", "Stopped", "CheckingAway", "CheckingHome",
      "RunningOnAway", "RunningOnHome">>

ResourceStatus == {StatusOrder[i] : i \in 1..Len(StatusOrder)}

\* derive(PartialOrd, Ord): the position of the variant in the enum.
Rank(s) == CHOOSE i \in 1..Len(StatusOrder) : StatusOrder[i] = s

RECURSIVE SeqMin(_)
SeqMin_head(list) == list[1]

\* Iterator::min over the derived order.
SeqMin(list) ==
    IF Len(list) = 1 THEN list[1]
    ELSE LET m == SeqMin(Tail(list))
         IN  IF Rank(list[1]) <= Rank(m) THEN list[1] ELSE m

RECURSIVE SeqMax(_)
SeqMax(list) ==
    IF Len(list) = 1 THEN list[1]
    ELSE LET m == SeqMax(Tail(list))
         IN  IF Rank(list[1]) >= Rank(m) THEN list[1] ELSE m

get_worst_max(list) == IF list = <<>> THEN "Unknown" ELSE SeqMax(list)

\* ResourceStatus::get_worst: list.min().unwrap_or(Unknown)
get_worst(list) == IF list = <<>> THEN "Unknown" ELSE SeqMin(list)

HostStatus == {"Up", "Down", "Unknown"}

-----------------------------------------------------------------------------
(* The resource tree and its breadth-first traversal.                      *)

root == 1

\* A pool with two targets, one of which has a dependent of its own; the
\* dependents list of the pool is not in id order.
TreeDeep == (1 :> <<3, 2>>) @@ (2 :> <<>>) @@ (3 :> <<4>>) @@ (4 :> <<>>)

\* A pool with two targets.
TreeFlat == (1 :> <<2, 3>>) @@ (2 :> <<>>) @@ (3 :> <<>>)

Trees == {TreeDeep, TreeFlat}

Resources == DOMAIN dependents

\* ResourceIterator::next: pop the front, append its dependents at the back.
RECURSIVE ResourceIterator(_)
ResourceIterator_dfs(queue) ==
    IF queue = <<>> THEN <<>>
    ELSE <<Head(queue)>> \o ResourceIterator(dependents[Head(queue)] \o Tail(queue))

ResourceIterator(queue) ==
    IF queue = <<>> THEN <<>>
    ELSE <<Head(queue)>> \o ResourceIterator(Tail(queue) \o dependents[Head(queue)])

\* ResourceGroup::resources
resources == ResourceIterator(<<root>>)

SeqToSet(s) == {s[i] : i \in 1..Len(s)}

Parent(r) == CHOOSE p \in Resources : r \in SeqToSet(dependents[p])

RECURSIVE Ancestors(_)
Ancestors(r) ==
    IF r = root THEN {} ELSE {Parent(r)} \cup Ancestors(Parent(r))

-----------------------------------------------------------------------------
(* The remote agent and the RPC wrappers.                                  *)

\* Exit codes the scripts return in the exploration: success, a generic
\* error, not running, and a code outside the OCF range.
ExitCodes == {0, 1, 7, 8}

\* What can happen to one RPC: the script ran and exited with a code; the
\* script could not be spawned (missing file); the script was killed by a
\* signal; the reply was not in the schema; the transport failed.
Outcomes ==
    {<<"exit", c>> : c \in ExitCodes}
        \cup {<<"spawn_fail", 0>>, <<"signal", 0>>, <<"schema", 0>>,
              <<"transport", 0>>}

OcfStatusFrom_generic(st) ==
    CASE st = 0 -> "Success"
      [] st = 1 -> "ErrGeneric"
      [] st = 2 -> "ErrArgs"
      [] st = 3 -> "ErrUnimplemented"
      [] st = 4 -> "ErrPerm"
      [] st = 5 -> "ErrInstalled"
      [] st = 6 -> "ErrConfigured"
      [] st = 7 -> "ErrNotRunning"
      [] OTHER  -> "ErrGeneric"

\* ocf::Status::from(i32)
OcfStatusFrom(st) ==
    CASE st = 0 -> "Success"
      [] st = 1 -> "ErrGeneric"
      [] st = 2 -> "ErrArgs"
      [] st = 3 -> "ErrUnimplemented"
      [] st = 4 -> "ErrPerm"
      [] st = 5 -> "ErrInstalled"
      [] st = 6 -> "ErrConfigured"
      [] st = 7 -> "ErrNotRunning"
      [] OTHER  -> "ErrUnimplemented"

\* ocf::do_operation followed by OcfResourceAgentImpl::operation: an exit
\* code becomes result.ok(code); an io error of the spawn or a missing exit
\* code becomes result.err(message).  The last two outcomes never produce a
\* well-formed reply.
AgentOperation(o) ==
    CASE o[1] = "exit"       -> <<"ok", o[2]>>
      [] o[1] = "spawn_fail" -> <<"err", 0>>
      [] o[1] = "signal"     -> <<"err", 0>>
      [] o[1] = "schema"     -> <<"notinschema", 0>>
      [] OTHER               -> <<"none", 0>>

Err == [ok |-> FALSE, st |-> "none"]
Ok(st) == [ok |-> TRUE, st |-> st]

RpcWrapper_err_is_err(o) ==
    LET reply == AgentOperation(o)
    IN  CASE reply[1] = "ok"          -> Ok(OcfStatusFrom(reply[2]))
          [] reply[1] = "notinschema" -> Ok("ErrUnimplemented")
          [] OTHER                    -> Err

\* Resource::monitor / Resource::start / Resource::stop: the body shared by
\* the three wrappers.
RpcWrapper(o) ==
    LET reply == AgentOperation(o)
    IN  CASE reply[1] = "ok"          -> Ok(OcfStatusFrom(reply[2]))
          [] reply[1] = "err"         -> Ok("ErrGeneric")
          [] reply[1] = "notinschema" -> Ok("ErrUnimplemented")
          [] OTHER                    -> Err

\* A healthy agent: the monitor script reports the state of the resource.
HealthyMonitor(r) == IF actual[r] = "running" THEN <<"exit", 0>> ELSE <<"exit", 7>>

\* A healthy agent: the start script starts the resource and exits 0.
HealthyStart(r) == <<"exit", 0>>

Healthy(op, r) == IF op = "Monitor" THEN HealthyMonitor(r) ELSE HealthyStart(r)

-----------------------------------------------------------------------------
(* Resource: status bookkeeping.                                           *)

\* Resource::status_update_string; the line is kept as its three fields.
status_update_string(r, old, new) == <<r, old, new>>

set_status_always_logs(S, r, s) ==
    [status |-> [S.status EXCEPT ![r] = s],
     log    |-> IF cfg.verbose
                THEN Append(S.log, status_update_string(r, S.status[r], s))
                ELSE S.log,
     calls  |-> Append(S.calls, <<r, s>>)]

\* Resource::set_status on the bundle S = [status, log, calls].
set_status(S, r, s) ==
    [status |-> [S.status EXCEPT ![r] = s],
     log    |-> IF cfg.verbose /\ S.status[r] # s
                THEN Append(S.log, status_update_string(r, S.status[r], s))
                ELSE S.log,
     calls  |-> Append(S.calls, <<r, s>>)]

\* Resource::is_running
is_running(s) == s \in {"RunningOnHome", "RunningOnAway"}

set_running_on_loc_away(S, r, loc) == set_status(S, r, "RunningOnAway")

\* Resource::set_running_on_loc
set_running_on_loc(S, r, loc) ==
    IF loc = "Home" THEN set_status(S, r, "RunningOnHome")
    ELSE set_status(S, r, "RunningOnAway")

Bundle == [status |-> status, log |-> log, calls |-> <<>>]

-----------------------------------------------------------------------------
(* Host.                                                                   *)

\* Host::set_status: Down panics before the store; anything else is stored.
host_set_status(h, s) ==
    IF s = "Down" THEN [status |-> h, panicked |-> TRUE]
    ELSE [status |-> s, panicked |-> FALSE]

-----------------------------------------------------------------------------
(* ResourceGroup: update_resources, try_start_resources, aggregate.        *)

Monitors(rs) == {<<"Monitor", "Home", r>> : r \in rs}

Starts_and_monitors(rs) ==
    {<<"Start", "Home", r>> : r \in rs} \cup {<<"Monitor", "Home", r>> : r \in rs}

Starts(rs) == {<<"Start", "Home", r>> : r \in rs}

monitor_status_success_only(res) ==
    IF res.ok /\ res.st = "Success" THEN "RunningOnHome" ELSE "Unknown"

observe_status_keeps_running(res) ==
    IF res.ok /\ res.st \in {"Success", "ErrGeneric"} THEN "RunningOnHome"
    ELSE IF res.ok /\ res.st = "ErrNotRunning" THEN "Stopped" ELSE "Unknown"

\* The match of Resource::observe_loop on the result of monitor(Home).
observe_status(res) ==
    IF res.ok
    THEN CASE res.st = "Success"       -> "RunningOnHome"
           [] res.st = "ErrNotRunning" -> "Stopped"
           [] OTHER                    -> "Unknown"
    ELSE "Unknown"

\* The match of update_resources on one monitor result (also
\* Resource::update_status).
monitor_status(res) ==
    IF res.ok
    THEN CASE res.st = "Success"       -> "RunningOnHome"
           [] res.st = "ErrNotRunning" -> "Stopped"
           [] OTHER                    -> "Unknown"
    ELSE "Unknown"

\* The for loop of update_resources over the collected statuses, in the
\* order of resources().
RECURSIVE apply_monitors(_, _, _)
apply_monitors(S, list, results) ==
    IF list = <<>> THEN S
    ELSE apply_monitors(
             set_status(S, Head(list), monitor_status(RpcWrapper(results[Head(list)]))),
             Tail(list), results)

error_seen_not_answered(results) ==
    \E r \in Resources :
        RpcWrapper(results[r]) \notin {Ok("Success"), Ok("ErrNotRunning")}

\* error_seen of update_resources: some member's monitor returned Err(_).
error_seen(results) == \E r \in Resources : ~RpcWrapper(results[r]).ok

home_status_down(results) == IF error_seen(results) THEN "Down" ELSE "Up"

\* The tail of update_resources: the status written to the home node.
home_status(results) == IF error_seen(results) THEN "Unknown" ELSE "Up"

\* ResourceGroup::update_overall_status on the member statuses st.
update_overall_status(st) ==
    get_worst([i \in 1..Len(resources) |-> st[resources[i]]])

RECURSIVE start_if_needed_recursive(_, _)
RECURSIVE start_dependents(_, _)

start_if_needed_always(r, st) == {r}

\* Resource::start_if_needed_recursive up to its first suspension: the set of
\* resources for which a Start RPC is issued when the future of r is polled.
start_if_needed_recursive(r, st) ==
    IF ~is_running(st[r]) THEN {r} ELSE start_dependents(r, st)

start_dependents_always(r, st) ==
    UNION {IF is_running(st[d]) THEN {} ELSE {d} : d \in SeqToSet(dependents[r])}

\* The second half of start_if_needed_recursive: the dependents are polled
\* only if r is running.
start_dependents(r, st) ==
    IF is_running(st[r])
    THEN UNION {start_if_needed_recursive(d, st) : d \in SeqToSet(dependents[r])}
    ELSE {}

\* The match of start_if_needed_recursive on the result of start(loc).
start_status(S, r, res) ==
    IF res.ok
    THEN IF res.st = "Success" THEN set_running_on_loc(S, r, "Home")
         ELSE set_status(S, r, "Stopped")
    ELSE set_status(S, r, "Unknown")

-----------------------------------------------------------------------------
(* Configuration and cluster assembly (config.rs, cluster.rs).             *)

\* Option<T>: None is the empty sequence, Some(x) the sequence of x alone.
None == <<>>
Some(x) == <<x>>

ZFS == "heartbeat/ZFS"
Lustre == "lustre/Lustre"

\* config::Resource
ConfigResource(kind, parameters, requires) ==
    [kind |-> kind, parameters |-> parameters, requires |-> requires]

\* A pool without a parent and a target that requires another resource; the
\* parameters are different for every resource.
Pool(h, id) == ConfigResource(ZFS, [pool |-> <<h, id>>], None)
Target(h, id, parent) ==
    ConfigResource(Lustre, [mountpoint |-> <<h, id>>, kind |-> "ost"], Some(parent))

\* config::Host.resources of the exploration: a pool with two targets; a
\* pool, a target and a target of that target; a target that requires an id
\* nobody has; a target that requires an id of another host; a single pool.
Flat(h) ==
    ("p" :> Pool(h, "p")) @@ ("a" :> Target(h, "a", "p")) @@ ("b" :> Target(h, "b", "p"))
Deep(h) ==
    ("p" :> Pool(h, "p")) @@ ("a" :> Target(h, "a", "p")) @@ ("b" :> Target(h, "b", "a"))
Dangling(h) == ("p" :> Pool(h, "p")) @@ ("a" :> Target(h, "a", "x"))
Cross(h) == ("p" :> Pool(h, "p")) @@ ("a" :> Target(h, "a", "q"))
Lone(h) == ("q" :> Pool(h, "q"))
\* A pool and two targets that require each other; a pool and a target that
\* requires itself.
Cyclic(h) ==
    ("p" :> Pool(h, "p")) @@ ("a" :> Target(h, "a", "b")) @@ ("b" :> Target(h, "b", "a"))
SelfRequiring(h) == ("p" :> Pool(h, "p")) @@ ("a" :> Target(h, "a", "a"))

\* config::Host
ConfigHost(hostname, res) == [hostname |-> hostname, resources |-> res]

HostLists ==
    {<<ConfigHost("h1", m)>> : m \in {Flat("h1"), Deep("h1"), Dangling("h1"),
                                      Cyclic("h1"), SelfRequiring("h1")}}
        \cup {<<ConfigHost("h1", m), ConfigHost("h2", Lone("h2"))>> :
                m \in {Flat("h1"), Cross("h1"), Lone("h1")}}
        \cup {<<ConfigHost("h2", Lone("h2")), ConfigHost("h1", Flat("h1"))>>}
        \cup {<<ConfigHost("h1", Lone("h1")), ConfigHost("h2", Lone("h2")),
                ConfigHost("h3", Lone("h3"))>>}

\* config::Config.failover_pairs: no section, an empty list, h1 paired with
\* h2 in either position, h1 paired with a name that is not a host.
PairOptions ==
    {None, Some(<<>>), Some(<<<<"h1", "h2">>>>), Some(<<<<"h2", "h1">>>>),
     Some(<<<<"h1", "h9">>>>)}

\* config::Config as Cluster::new gets it: the file could be read and parsed
\* into hosts and failover_pairs, or it could not.
Unreadable == [readable |-> FALSE, hosts |-> <<>>, failover_pairs |-> None]

Configs ==
    {[readable |-> TRUE, hosts |-> hs, failover_pairs |-> fp] :
        hs \in HostLists, fp \in PairOptions} \cup {Unreadable}

\* The orders in which a HashMap with the keys S can be iterated.
Perms(S) ==
    {s \in [1..Cardinality(S) -> S] : \A i, j \in 1..Cardinality(S) : s[i] = s[j] => i = j}

\* One iteration order for the resource map of every host of c.
IterOrders(c) ==
    {f \in [1..Len(c.hosts) ->
                UNION {Perms(DOMAIN c.hosts[i].resources) : i \in 1..Len(c.hosts)}] :
        \A i \in 1..Len(c.hosts) : f[i] \in Perms(DOMAIN c.hosts[i].resources)}

\* get_failover_partner
RECURSIVE get_failover_partner(_, _)
get_failover_partner(pairs, name) ==
    IF pairs = <<>> THEN None
    ELSE IF name = Head(pairs)[1] THEN Some(Head(pairs)[2])
    ELSE IF name = Head(pairs)[2] THEN Some(Head(pairs)[1])
    ELSE get_failover_partner(Tail(pairs), name)

\* ResourceGroup::resources for the tree dep: ResourceIterator::next.
RECURSIVE group_resources(_, _)
group_resources(dep, queue) ==
    IF queue = <<>> THEN <<>>
    ELSE <<Head(queue)>> \o group_resources(dep, Tail(queue) \o dep[Head(queue)])

RECURSIVE flat_map_reversed(_, _)
flat_map_reversed(dep, groups) ==
    IF groups = <<>> THEN <<>>
    ELSE flat_map_reversed(dep, Tail(groups)) \o group_resources(dep, <<Head(groups)>>)

\* flat_map(|group| group.resources()) over the groups.
RECURSIVE flat_map(_, _)
flat_map(dep, groups) ==
    IF groups = <<>> THEN <<>>
    ELSE group_resources(dep, <<Head(groups)>>) \o flat_map(dep, Tail(groups))

\* The for loop of one_host_resource_groups over the ids todo.  T.orig holds
\* the children of the entries of `resources`, T.nodes the children of the
\* entries of processed_nodes (the clones that end up in the trees), T.roots
\* the roots found so far.
RECURSIVE build_trees(_, _, _)
build_trees(res, todo, T) ==
    IF todo = <<>> \/ T.panicked THEN T
    ELSE LET id == Head(todo)
             \* Rc::new(res.clone()) and processed_nodes.insert
             nodes == (id :> T.orig[id]) @@ T.nodes
             requires == res[id].requires
         IN  IF requires = None
             THEN build_trees(res, Tail(todo),
                      [T EXCEPT !.nodes = nodes, !.roots = Append(@, id)])
             ELSE IF requires[1] \in DOMAIN nodes
             THEN build_trees(res, Tail(todo),
                      [T EXCEPT !.nodes = [nodes EXCEPT ![requires[1]] = Append(@, id)]])
             ELSE IF requires[1] \in DOMAIN res
             THEN build_trees(res, Tail(todo),
                      [T EXCEPT !.nodes = nodes,
                                !.orig = [@ EXCEPT ![requires[1]] = Append(@, id)]])
             ELSE [T EXCEPT !.panicked = TRUE]

NoTrees == [panicked |-> TRUE, roots |-> <<>>, dependents |-> <<>>]

\* Cluster::one_host_resource_groups with the resource map iterated in the
\* order `order`; ResourceGroup::new asserts that every root is a pool.  The
\* groups own what into_resource reaches from the roots; a node that no root
\* reaches is not in the cluster.
one_host_resource_groups(config_host, order) ==
    LET res == config_host.resources
        T == build_trees(res, order,
                 [orig |-> [id \in DOMAIN res |-> <<>>], nodes |-> <<>>,
                  roots |-> <<>>, panicked |-> FALSE])
    IN  IF T.panicked THEN NoTrees
        ELSE IF \E k \in 1..Len(T.roots) : res[T.roots[k]].kind # ZFS THEN NoTrees
        ELSE [panicked |-> FALSE, roots |-> T.roots,
              dependents |-> [id \in SeqToSet(flat_map(T.nodes, T.roots)) |->
                                 T.nodes[id]]]

\* A cluster: the roots of the groups in the order of resource_groups, and
\* for every resource <<hostname, id>> its dependents, home_node,
\* failover_node, kind and parameters.
Cluster(state) ==
    [state |-> state, groups |-> <<>>, dependents |-> <<>>, home |-> <<>>,
     failover |-> <<>>, kind |-> <<>>, parameters |-> <<>>]

\* The for loop of Cluster::new over config.hosts from the i-th host on.
RECURSIVE new_hosts(_, _, _, _)
new_hosts(c, it, i, acc) ==
    IF i > Len(c.hosts) THEN acc
    ELSE LET config_host == c.hosts[i]
             hn == config_host.hostname
             hostnames == {c.hosts[j].hostname : j \in 1..Len(c.hosts)}
             partner == IF c.failover_pairs = None THEN None
                        ELSE get_failover_partner(c.failover_pairs[1], hn)
         IN  IF c.failover_pairs # None /\ partner = None THEN Cluster("panic")
             ELSE IF c.failover_pairs # None /\ partner[1] \notin hostnames
             THEN Cluster("panic")
             ELSE LET rg == one_host_resource_groups(config_host, it[i])
                      ids == DOMAIN rg.dependents
                      key(id) == <<hn, id>>
                      here == {key(id) : id \in ids}
                  IN  IF rg.panicked THEN Cluster("panic")
                      ELSE new_hosts(c, it, i + 1,
                             [acc EXCEPT
                                !.groups = @ \o [k \in 1..Len(rg.roots) |-> key(rg.roots[k])],
                                !.dependents = @ @@
                                    [r \in here |->
                                        [k \in 1..Len(rg.dependents[r[2]]) |->
                                            key(rg.dependents[r[2]][k])]],
                                !.home = @ @@ [r \in here |-> hn],
                                !.failover = @ @@ [r \in here |-> partner],
                                !.kind = @ @@
                                    [r \in here |-> config_host.resources[r[2]].kind],
                                !.parameters = @ @@
                                    [r \in here |-> config_host.resources[r[2]].parameters]])

\* Cluster::new: Err when the file cannot be read or parsed, otherwise the
\* cluster assembled host by host.
new(c, it) ==
    IF ~c.readable THEN Cluster("error") ELSE new_hosts(c, it, 1, Cluster("ok"))

\* Cluster::resources
cluster_resources(cl) == flat_map(cl.dependents, cl.groups)

-----------------------------------------------------------------------------
(* The control channel (manager.rs).                                       *)

StatusToWire_unknown(s) == <<"Status", "Unknown">>

\* From<ResourceStatus> for halo_mgmt::Status
StatusToWire(s) ==
    CASE s = "Unknown"       -> <<"Status", "Unknown">>
      [] s = "CheckingHome"  -> <<"Status", "CheckingHome">>
      [] s = "RunningOnHome" -> <<"Status", "RunningOnHome">>
      [] s = "Stopped"       -> <<"Status", "Stopped">>
      [] s = "CheckingAway"  -> <<"Status", "CheckingAway">>
      [] s = "RunningOnAway" -> <<"Status", "RunningOnAway">>
      [] s = "Unrunnable"    -> <<"Status", "Unrunnable">>

\* No request is being served.  `seen` is the history of the statuses of all
\* resources, as they were together, since the request was received.
Idle == [pc |-> "idle", served |-> 0, count |-> 0, entries |-> <<>>, seen |-> {}]

-----------------------------------------------------------------------------
(* Single calls, the agents of a cluster and the manager process at rest.  *)

\* No function or command is called.
NoInput == <<"none", <<>>>>

\* The manager process was not launched.
NotStarted ==
    [pc |-> "off", exit |-> None, stderr |-> <<>>, rpcs |-> 0, bound |-> FALSE,
     bindErr |-> FALSE]

\* The parts that are explored on their own are not there.
Off == [pc |-> "off"]

ToolsOff ==
    /\ buf = Off
    /\ lk = Off
    /\ grp = Off
    /\ cmd = Off
    /\ input = NoInput
    /\ output = None
    /\ agents = <<>>
    /\ made = <<>>
    /\ proc = NotStarted

-----------------------------------------------------------------------------
(* Initial state: the cluster right after assembly.                        *)

NoEpisode == [r |-> 0, at |-> 0, clean |-> FALSE]

Init ==
    /\ cfg \in [manage : BOOLEAN, verbose : BOOLEAN, ha : BOOLEAN,
                 initially : {"running", "stopped"}]
    /\ dependents \in Trees
    /\ pc = "start"
    /\ status = [r \in DOMAIN dependents |-> "Unknown"]
    /\ overall = "Unknown"
    /\ hostStatus = "Unknown"
    /\ actual = [r \in DOMAIN dependents |-> cfg.initially]
    /\ starting = {}
    /\ log = <<>>
    /\ rpcs = {}
    /\ failed = {}
    /\ lastCalls = <<>>
    /\ consumed = {}
    /\ faults = 0
    /\ stops = 0
    /\ episode = NoEpisode
    /\ since = 0
    /\ fences = <<>>
    /\ config = Unreadable
    /\ iter = <<>>
    /\ cluster = Cluster("none")
    /\ cstatus = <<>>
    /\ mgmt = Idle
    /\ writes = 0
    /\ ToolsOff

\* The outcome vectors the environment may produce for the RPCs of the
\* resources rs: the healthy outcome everywhere, except for at most as many
\* resources as the fault budget still allows.
Answers(rs, op) ==
    UNION {
        {f @@ [r \in rs |-> Healthy(op, r)] :
            f \in {g \in [F -> Outcomes] : \A r \in F : g[r] # Healthy(op, r)}} :
        F \in {G \in SUBSET rs : faults + Cardinality(G) <= MaxFaults}}

\* The number of outcomes in results that a healthy agent would not give.
Faulty(results, op) ==
    Cardinality({r \in DOMAIN results : results[r] # Healthy(op, r)})

\* One more step of the manager task after the last external stop.
Step ==
    since' = IF episode.r # 0 /\ since < RecoverySteps THEN since + 1 ELSE since

-----------------------------------------------------------------------------
(* Actions.                                                                *)

main_loop_manages ==
    /\ pc = "start"
    /\ Step
    /\ IF cfg.ha
       THEN pc' = "panic_todo" /\ rpcs' = rpcs
       ELSE pc' = "first_update" /\ rpcs' = Monitors(Resources)
    /\ lastCalls' = <<>>
    /\ consumed' = {}
    /\ UNCHANGED <<cfg, dependents, status, overall, hostStatus, actual,
                   starting, log, failed, faults, stops, episode>>
    /\ UNCHANGED <<fences, clusterVars, toolVars, auxVars>>

\* ResourceGroup::main_loop and manage_loop: pick the loop of the group.
\* manage_ha calls check_location, which reaches todo!() before any RPC is
\* polled.  manage_non_ha and observe_loop send a Monitor for every member.
main_loop ==
    /\ pc = "start"
    /\ Step
    /\ IF cfg.manage
       THEN IF cfg.ha
            THEN pc' = "panic_todo" /\ rpcs' = rpcs
            ELSE pc' = "first_update" /\ rpcs' = Monitors(Resources)
       ELSE pc' = "observe" /\ rpcs' = Monitors(Resources)
    /\ lastCalls' = <<>>
    /\ consumed' = {}
    /\ UNCHANGED <<cfg, dependents, status, overall, hostStatus, actual,
                   starting, log, failed, faults, stops, episode>>
    /\ UNCHANGED <<fences, clusterVars, toolVars, auxVars>>

\* Resource::observe_loop, one iteration for resource r with outcome o: the
\* status is assigned directly (not through set_status), then the next
\* Monitor is sent after the sleep.
observe_loop(r, o) ==
    /\ pc = "observe"
    /\ Step
    /\ faults' = faults + Faulty((r :> o), "Monitor")
    /\ status' = [status EXCEPT ![r] = observe_status(RpcWrapper(o))]
    /\ rpcs' = rpcs \cup Monitors({r})
    /\ lastCalls' = <<>>
    /\ consumed' = {<<"Monitor", r, o>>}
    /\ UNCHANGED <<cfg, dependents, pc, overall, hostStatus, actual,
                   starting, log, failed, stops, episode>>
    /\ UNCHANGED <<fences, clusterVars, toolVars, auxVars>>

\* ResourceGroup::update_resources once join_all has collected the outcome
\* results[r] of every member's Monitor: record every member's status, then
\* the host's; inside the loop of manage_non_ha this is followed by
\* update_overall_status and the sleep.
update_resources(results) ==
    /\ pc \in {"first_update", "update"}
    /\ Step
    /\ faults' = faults + Faulty(results, "Monitor")
    /\ LET S == apply_monitors(Bundle, resources, results)
           H == host_set_status(hostStatus, home_status(results))
       IN  /\ status' = S.status
           /\ log' = S.log
           /\ lastCalls' = S.calls
           /\ hostStatus' = H.status
           /\ IF H.panicked
              THEN pc' = "panic_host" /\ overall' = overall
              ELSE IF pc = "first_update"
                   THEN pc' = "loop" /\ overall' = overall
                   ELSE pc' = "sleep" /\ overall' = update_overall_status(S.status)
    /\ consumed' = {<<"Monitor", r, results[r]>> : r \in Resources}
    /\ UNCHANGED <<cfg, dependents, actual, starting, rpcs, failed, stops,
                   episode>>
    /\ UNCHANGED <<fences, clusterVars, toolVars, auxVars>>

\* One pass of the loop of manage_non_ha up to its first suspension: the
\* match on the aggregate status.
manage_non_ha ==
    /\ pc \in {"loop", "sleep"}
    /\ Step
    /\ failed' = {}
    /\ lastCalls' = <<>>
    /\ consumed' = {}
    /\ CASE overall \in {"Unknown", "RunningOnHome"} ->
              /\ pc' = "update"
              /\ rpcs' = Monitors(Resources)
              /\ UNCHANGED <<starting, overall>>
         [] overall = "Stopped" ->
              LET issue == start_if_needed_recursive(root, status)
              IN  /\ starting' = issue
                  /\ rpcs' = Starts(issue)
                  /\ IF issue = {}
                     THEN pc' = "sleep" /\ overall' = update_overall_status(status)
                     ELSE pc' = "starting" /\ overall' = overall
         [] overall = "Unrunnable" ->
              /\ pc' = "sleep"
              /\ overall' = update_overall_status(status)
              /\ rpcs' = {}
              /\ UNCHANGED starting
         [] OTHER ->
              /\ pc' = "panic_state"
              /\ rpcs' = {}
              /\ UNCHANGED <<starting, overall>>
    /\ UNCHANGED <<cfg, dependents, status, hostStatus, actual, log,
                   faults, stops, episode>>
    /\ UNCHANGED <<fences, clusterVars, toolVars, auxVars>>

\* Resource::start completing inside start_if_needed_recursive for r: record
\* the result, poll the dependents if r is running; when no Start is left in
\* flight try_start_resources returns and the aggregate is recomputed.
start(r, o) ==
    /\ pc = "starting"
    /\ Step
    /\ r \in starting
    /\ faults' = faults + Faulty((r :> o), "Start")
    /\ actual' = IF o = HealthyStart(r) THEN [actual EXCEPT ![r] = "running"]
                 ELSE actual
    /\ LET S == start_status(Bundle, r, RpcWrapper(o))
           issue == start_dependents(r, S.status)
           left == (starting \ {r}) \cup issue
       IN  /\ status' = S.status
           /\ log' = S.log
           /\ lastCalls' = S.calls
           /\ starting' = left
           /\ rpcs' = rpcs \cup Starts(issue)
           /\ failed' = IF is_running(S.status[r]) THEN failed ELSE failed \cup {r}
           /\ IF left = {}
              THEN pc' = "sleep" /\ overall' = update_overall_status(S.status)
              ELSE pc' = pc /\ overall' = overall
    /\ consumed' = {<<"Start", r, o>>}
    /\ UNCHANGED <<cfg, dependents, hostStatus, stops, episode>>
    /\ UNCHANGED <<fences, clusterVars, toolVars, auxVars>>

\* TestEnvironment::stop_resource: the resource stops underneath the manager.
\* The stop is remembered with the length of the log at that moment; it is
\* clean when it is the only resource down, the aggregate is RunningOnHome
\* and the agent has been healthy so far.
stop_resource(r) ==
    /\ actual[r] = "running"
    /\ stops < MaxStops
    /\ actual' = [actual EXCEPT ![r] = "stopped"]
    /\ stops' = stops + 1
    /\ since' = 0
    /\ episode' = [r |-> r, at |-> Len(log),
                   clean |-> /\ overall = "RunningOnHome"
                             /\ faults = 0
                             /\ \A q \in Resources : actual[q] = "running"]
    /\ lastCalls' = <<>>
    /\ consumed' = {}
    /\ UNCHANGED <<cfg, dependents, pc, status, overall, hostStatus,
                   starting, log, rpcs, failed, faults>>
    /\ UNCHANGED <<fences, clusterVars, toolVars, auxVars>>

Next ==
    \/ main_loop
    \/ \E r \in Resources : \E a \in Answers({r}, "Monitor") : observe_loop(r, a[r])
    \/ \E results \in Answers(Resources, "Monitor") : update_resources(results)
    \/ manage_non_ha
    \/ \E r \in Resources : \E a \in Answers({r}, "Start") : start(r, a[r])
    \/ \E r \in Resources : stop_resource(r)

Spec == Init /\ [][Next]_vars

-----------------------------------------------------------------------------
(* Cluster assembly and the control channel.                               *)

\* A configuration and an iteration order of its resource maps; nothing is
\* assembled yet and the group's task of the first part does not run.
ClusterInit ==
    /\ config \in Configs
    /\ iter \in IterOrders(config)
    /\ cluster = Cluster("none")
    /\ cstatus = <<>>
    /\ mgmt = Idle
    /\ writes = 0
    /\ cfg = [manage |-> FALSE, verbose |-> FALSE, ha |-> FALSE,
               initially |-> "stopped"]
    /\ dependents = TreeFlat
    /\ pc = "start"
    /\ status = [r \in DOMAIN TreeFlat |-> "Unknown"]
    /\ overall = "Unknown"
    /\ hostStatus = "Unknown"
    /\ actual = [r \in DOMAIN TreeFlat |-> "stopped"]
    /\ starting = {}
    /\ log = <<>>
    /\ rpcs = {}
    /\ failed = {}
    /\ lastCalls = <<>>
    /\ consumed = {}
    /\ faults = 0
    /\ stops = 0
    /\ episode = NoEpisode
    /\ since = 0
    /\ fences = <<>>
    /\ ToolsOff

\* Cluster::new: assemble the cluster; every Resource starts out Unknown
\* (Resource::from_config).
Cluster_new ==
    /\ cluster.state = "none"
    /\ cluster' = new(config, iter)
    /\ cstatus' = [r \in DOMAIN cluster'.dependents |-> "Unknown"]
    /\ UNCHANGED <<config, iter, mgmt, writes, engineVars, toolVars, auxVars>>

\* The statuses the implemented loops store (observe_loop, update_resources,
\* start_if_needed_recursive at Home).
Stored == {"Unknown", "Stopped", "RunningOnHome"}

\* The engine's thread stores status s in resource r (Resource::set_status,
\* or the assignment of Resource::observe_loop) while the control channel
\* runs in its own thread.
engine_store(r, s) ==
    /\ cluster.state = "ok"
    /\ writes < MaxWrites
    /\ cstatus[r] # s
    /\ cstatus' = [cstatus EXCEPT ![r] = s]
    /\ writes' = writes + 1
    /\ mgmt' = IF mgmt.pc = "filling"
               THEN [mgmt EXCEPT !.seen = @ \cup {[cstatus EXCEPT ![r] = s]}]
               ELSE mgmt
    /\ UNCHANGED <<config, iter, cluster, engineVars, toolVars, auxVars>>

\* HaloMgmtImpl::monitor, the start: init_resources with the number of
\* resources of the cluster.
HaloMgmt_monitor_init ==
    /\ cluster.state = "ok"
    /\ mgmt.pc \in {"idle", "replied"}
    /\ mgmt.served < MaxRequests
    /\ mgmt' = [pc |-> "filling", served |-> mgmt.served + 1,
                count |-> Len(cluster_resources(cluster)), entries |-> <<>>,
                seen |-> {cstatus}]
    /\ UNCHANGED <<config, iter, cluster, cstatus, writes, engineVars, toolVars, auxVars>>

\* HaloMgmtImpl::monitor, one pass of the for loop over cluster.resources():
\* the status is read under the resource's lock, the parameters are copied.
HaloMgmt_monitor_entry ==
    /\ mgmt.pc = "filling"
    /\ Len(mgmt.entries) < Len(cluster_resources(cluster))
    /\ LET res == cluster_resources(cluster)[Len(mgmt.entries) + 1]
       IN  mgmt' = [mgmt EXCEPT !.entries =
                       Append(@, [status |-> StatusToWire(cstatus[res]),
                                  parameters |-> cluster.parameters[res]])]
    /\ UNCHANGED <<config, iter, cluster, cstatus, writes, engineVars, toolVars, auxVars>>

\* HaloMgmtImpl::monitor, the end: the message becomes the reply.
HaloMgmt_monitor_reply ==
    /\ mgmt.pc = "filling"
    /\ Len(mgmt.entries) = Len(cluster_resources(cluster))
    /\ mgmt' = [mgmt EXCEPT !.pc = "replied"]
    /\ UNCHANGED <<config, iter, cluster, cstatus, writes, engineVars, toolVars, auxVars>>

ClusterNext ==
    \/ Cluster_new
    \/ \E r \in DOMAIN cstatus : \E s \in Stored : engine_store(r, s)
    \/ HaloMgmt_monitor_init
    \/ HaloMgmt_monitor_entry
    \/ HaloMgmt_monitor_reply

ClusterSpec == ClusterInit /\ [][ClusterNext]_vars

-----------------------------------------------------------------------------
(* Fencing (host.rs).                                                      *)

\* FenceCommand
FenceCommand == {"On", "Off", "Status"}

\* What the agent wrote on its stdout: text that may contain the substrings
\* "is ON" and "is OFF", or bytes that read_to_string cannot decode.
Stdouts ==
    {[utf8 |-> TRUE, contains |-> S] : S \in SUBSET {"is ON", "is OFF"}}
        \cup {[utf8 |-> FALSE, contains |-> {}]}

\* One run of the fence agent executable: the spawn fails, the write of the
\* command bytes on its stdin fails, the wait fails, or it exits with a code
\* after writing its stdout.
FenceRun ==
    [stage : {"spawn_fail", "write_fail", "wait_fail", "exited"},
     code : {0, 1}, stdout : Stdouts]

\* The result of a fence call and whether the agent executable was spawned.
FenceResult(res, spawned) == [res |-> res, spawned |-> spawned]

\* Host::do_fence
do_fence(fence_agent, command, run) ==
    IF fence_agent = None THEN FenceResult("panic", FALSE)
    ELSE IF command = "Status" THEN FenceResult("panic", FALSE)
    ELSE IF run.stage = "spawn_fail" THEN FenceResult("Err(io)", FALSE)
    ELSE IF run.stage = "write_fail" THEN FenceResult("Err(io)", TRUE)
    ELSE IF run.stage = "wait_fail" THEN FenceResult("Err(io)", TRUE)
    ELSE IF ~run.stdout.utf8 THEN FenceResult("Err(io)", TRUE)
    ELSE IF run.code = 0 THEN FenceResult("Ok", TRUE)
    ELSE FenceResult("Err(FenceError)", TRUE)

is_powered_on_ignores_exit(fence_agent, run) ==
    IF fence_agent = None THEN FenceResult("panic", FALSE)
    ELSE IF run.stage = "spawn_fail" THEN FenceResult("Err(io)", FALSE)
    ELSE IF run.stage \in {"write_fail", "wait_fail"} \/ ~run.stdout.utf8
    THEN FenceResult("Err(io)", TRUE)
    ELSE IF "is ON" \in run.stdout.contains THEN FenceResult("Ok(true)", TRUE)
    ELSE IF "is OFF" \in run.stdout.contains THEN FenceResult("Ok(false)", TRUE)
    ELSE FenceResult("Err(FenceError)", TRUE)

\* Host::is_powered_on
is_powered_on(fence_agent, run) ==
    IF fence_agent = None THEN FenceResult("panic", FALSE)
    ELSE IF run.stage = "spawn_fail" THEN FenceResult("Err(io)", FALSE)
    ELSE IF run.stage = "write_fail" THEN FenceResult("Err(io)", TRUE)
    ELSE IF run.stage = "wait_fail" THEN FenceResult("Err(io)", TRUE)
    ELSE IF run.code # 0 THEN FenceResult("Err(FenceError)", TRUE)
    ELSE IF ~run.stdout.utf8 THEN FenceResult("Err(io)", TRUE)
    ELSE IF "is ON" \in run.stdout.contains THEN FenceResult("Ok(true)", TRUE)
    ELSE IF "is OFF" \in run.stdout.contains THEN FenceResult("Ok(false)", TRUE)
    ELSE FenceResult("Err(FenceError)", TRUE)

-----------------------------------------------------------------------------
(* The command line tool (bin/manager.rs, commands/*.rs).                  *)

exit_status_always_zero(res) == 0

\* fn main of the halo binary: exit(1) on Err, a normal return on Ok; a
\* panic of the main thread ends the process with status 101.
exit_status(res) ==
    CASE res = "Ok"  -> 0
      [] res = "Err" -> 1
      [] OTHER       -> 101

\* The fence runs the command line tool explores: the agent exits 0 with
\* readable output, it exits 1, it cannot be spawned.
RunOk == [stage |-> "exited", code |-> 0, stdout |-> [utf8 |-> TRUE, contains |-> {"is ON"}]]
RunFail == [stage |-> "exited", code |-> 1, stdout |-> [utf8 |-> TRUE, contains |-> {}]]
RunNoSpawn == [stage |-> "spawn_fail", code |-> 0, stdout |-> [utf8 |-> TRUE, contains |-> {}]]
CommandRuns == {RunOk, RunFail, RunNoSpawn}

\* What Cluster::new gives the power command: Err, or the fence agent of
\* every host of the configuration (a host may have none).
PowerClusters ==
    {<<"error", <<>>>>,
     <<"ok", ("h1" :> Some("powerman")) @@ ("h2" :> Some("powerman"))>>,
     <<"ok", ("h1" :> Some("powerman")) @@ ("h3" :> None)>>}

\* PowerArgs, the cluster of the configuration and the run of the fence
\* agent for every host that is fenced or asked for its status.
PowerInputs ==
    [action : FenceCommand,
     hostnames : {<<>>, <<"h1">>, <<"h1", "h2">>, <<"h2", "h1">>, <<"h3">>, <<"h9">>},
     fence_agent : {None, Some("powerman"), Some("ipmi")},
     cl : PowerClusters,
     runs : [{"h1", "h2", "h3", "h9"} -> CommandRuns]]

\* The results of the do_fence calls of a for loop over hosts with the
\* fence agents `agent`.
fence_loop(hostnames, agent, action, runs) ==
    [i \in 1..Len(hostnames) |->
        do_fence(agent[hostnames[i]], action, runs[hostnames[i]]).res]

\* commands::power::do_fence_given_agent
do_fence_given_agent(fence_agent, args) ==
    IF fence_agent # "powerman" THEN "panic"
    ELSE LET results == fence_loop(args.hostnames,
                            [h \in SeqToSet(args.hostnames) |-> Some(fence_agent)],
                            args.action, args.runs)
             seen == \E i \in DOMAIN results : results[i] \notin {"Ok", "panic"}
         IN  IF \E i \in DOMAIN results : results[i] = "panic" THEN "panic"
             ELSE IF seen THEN "Err" ELSE "Ok"

\* commands::power::status_all_hosts_in_config
status_all_hosts_in_config(args) ==
    IF args.action # "Status" THEN "Err"
    ELSE IF args.cl[1] = "error" THEN "Err"
    ELSE IF \E h \in DOMAIN args.cl[2] :
                is_powered_on(args.cl[2][h], args.runs[h]).res = "panic"
    THEN "panic"
    ELSE "Ok"

\* commands::power::power
power(args) ==
    IF Len(args.hostnames) = 0 THEN status_all_hosts_in_config(args)
    ELSE IF args.fence_agent # None
    THEN do_fence_given_agent(args.fence_agent[1], args)
    ELSE IF args.cl[1] = "error" THEN "Err"
    ELSE IF \E i \in 1..Len(args.hostnames) : args.hostnames[i] \notin DOMAIN args.cl[2]
    THEN "panic"
    ELSE LET results == fence_loop(args.hostnames, args.cl[2], args.action, args.runs)
         IN  IF \E i \in DOMAIN results : results[i] = "panic" THEN "panic"
             ELSE "Ok"

\* The outcomes of the Start RPCs of the start command: the script exits 0
\* or 1, or the transport fails.
StartOutcomes == {<<"exit", 0>>, <<"exit", 1>>, <<"transport", 0>>}

\* What Cluster::new gives the start command, and the outcome of the Start
\* RPC of a pool, of the MGS and of one more target.
StartInputs == [cl : {"error", "ok"}, outs : [1..3 -> StartOutcomes]]

\* commands::start::start: the results are printed, in the order pools, MGS,
\* remaining targets.
commands_start(args) ==
    IF args.cl = "error" THEN [res |-> "Err", printed |-> <<>>]
    ELSE [res |-> "Ok",
          printed |-> [i \in 1..Len(args.outs) |-> RpcWrapper(args.outs[i])]]

-----------------------------------------------------------------------------
(* Single calls: a function or a command applied to one input.             *)

\* The longest list of statuses given to get_worst.
MaxLen == 3
\* The largest number of resources of a tree given to resources().
MaxNodes == 4
\* Exit codes from -CodeSpan to CodeSpan are converted.
CodeSpan == 9

StatusLists == UNION {[1..n -> ResourceStatus] : n \in 0..MaxLen}

Codes == (0 - CodeSpan)..CodeSpan

RECURSIVE Ascending(_)
Ascending(S) ==
    IF S = {} THEN <<>>
    ELSE LET m == CHOOSE x \in S : \A y \in S : x <= y
         IN  <<m>> \o Ascending(S \ {m})

Reverse(s) == [i \in 1..Len(s) |-> s[Len(s) + 1 - i]]

\* The trees of n resources with the root 1: every other resource has a
\* parent with a smaller id, and every dependents list is in ascending or in
\* descending id order.
TreesOf(n) ==
    {[r \in 1..n |->
        LET kids == Ascending({c \in 2..n : p[c] = r})
        IN  IF rev[r] THEN Reverse(kids) ELSE kids] :
        p \in {q \in [2..n -> 1..n] : \A c \in 2..n : q[c] < c},
        rev \in [1..n -> BOOLEAN]}

FnTrees == UNION {TreesOf(n) : n \in 1..MaxNodes}

\* What can happen to one RPC, with every exit code of Codes.
WireOutcomes ==
    {<<"exit", c>> : c \in Codes}
        \cup {<<"spawn_fail", 0>>, <<"signal", 0>>, <<"schema", 0>>,
              <<"transport", 0>>}

\* crate::remote_port() without HALO_PORT in the environment.
DefaultRemotePort == 8000

\* The hosts of one configuration.
MaxHosts == 2

\* config::Host.hostname, "<address>" or "<address>:<port>", as the parts
\* that split(':') gives.
Hostnames == {<<"oss">>, <<"oss", 8001>>, <<"oss", 8002>>, <<"mds">>}

\* config::Host.fence_agent with fence_parameters, as FenceAgent::from_params
\* reads them: none, powerman, or fence_test with its target.
FenceAgents ==
    {None, Some([agent |-> "powerman", target |-> ""]),
     Some([agent |-> "fence_test", target |-> "t1"]),
     Some([agent |-> "fence_test", target |-> "t2"])}

\* The [[hosts]] sections of a configuration, for the host directory.
DirectoryInputs ==
    UNION {[1..n -> [hostname : Hostnames, fence_agent : FenceAgents]] :
             n \in 1..MaxHosts}

\* Host::get_host_port and Host::new
Host_from_config(ch) ==
    [name |-> ch.hostname[1],
     port |-> IF Len(ch.hostname) > 1 THEN ch.hostname[2] ELSE DefaultRemotePort,
     fence_agent |-> ch.fence_agent]

\* Host::id
Host_id(h) ==
    IF h.fence_agent # None /\ h.fence_agent[1].agent = "fence_test"
    THEN h.fence_agent[1].target
    ELSE h.name

\* Iterator::collect into a HashMap: of the pairs with the same key the
\* last one stays.
Collect(pairs) ==
    [k \in {pairs[i][1] : i \in 1..Len(pairs)} |->
        pairs[CHOOSE i \in 1..Len(pairs) :
                /\ pairs[i][1] = k
                /\ \A j \in 1..Len(pairs) : pairs[j][1] = k => j <= i][2]]

\* Cluster::new, the map keyed by config hostname.
hosts_by_hostname(chs) ==
    Collect([i \in 1..Len(chs) |-> <<chs[i].hostname, Host_from_config(chs[i])>>])

\* Cluster::new, the end: the map is iterated in the order `order` of its
\* keys and collected again under Host::id.
hosts_by_id(chs, order) ==
    LET first == hosts_by_hostname(chs)
    IN  Collect([i \in 1..Len(order) |->
                    <<Host_id(first[order[i]]), first[order[i]]>>])

\* b'\n'
Newline == 10

\* The bytes in the Buffer and the length of the buffer given to readln.
MaxLine == 3

\* The unread bytes of a Buffer, some of them newlines, and the length of
\* the buffer given to readln.
ReadlnInputs ==
    {[data |-> d, outlen |-> n] :
        d \in UNION {[1..k -> {Newline, 120}] : k \in 0..MaxLine},
        n \in 0..MaxLine}

RECURSIVE readln_loop(_, _, _, _)
\* Buffer::readln, the while loop, entered when the last byte read was not a
\* newline: read gives the next byte (and waits when there is none), the
\* byte is stored at out_idx, out_idx is advanced and compared with the
\* length of the buffer.
readln_loop(data, outlen, out_idx, out) ==
    IF out_idx >= Len(data) THEN [res |-> "waiting", n |-> out_idx, buf |-> out]
    ELSE LET c == data[out_idx + 1]
             stored == Append(out, c)
         IN  IF out_idx + 1 >= outlen
             THEN [res |-> "panic", n |-> out_idx + 1, buf |-> stored]
             ELSE IF c = Newline
             THEN [res |-> "Ok", n |-> out_idx + 1, buf |-> stored]
             ELSE readln_loop(data, outlen, out_idx + 1, stored)

\* Buffer::readln on a Buffer whose unread bytes are data, with a buffer of
\* outlen bytes.
readln(data, outlen) ==
    IF outlen = 0 THEN [res |-> "panic", n |-> 0, buf |-> <<>>]
    ELSE readln_loop(data, outlen, 0, <<>>)

FnInputs ==
    {<<"get_worst", l>> : l \in StatusLists}
        \cup {<<"from", c>> : c \in Codes}
        \cup {<<"resources", t>> : t \in FnTrees}
        \cup {<<"wrapper", <<op, o>>>> : op \in {"Monitor", "Start", "Stop"},
                                         o \in WireOutcomes}
        \cup {<<"do_fence", [fence_agent |-> a, command |-> c, run |-> r]>> :
                a \in {None, Some("powerman")}, c \in FenceCommand, r \in FenceRun}
        \cup {<<"is_powered_on", [fence_agent |-> a, run |-> r]>> :
                a \in {None, Some("powerman")}, r \in FenceRun}
        \cup {<<"power", a>> : a \in PowerInputs}
        \cup {<<"start", a>> : a \in StartInputs}
        \cup {<<"hosts", chs>> : chs \in DirectoryInputs}
        \cup {<<"readln", a>> : a \in ReadlnInputs}

\* An input is chosen; nothing else of the program runs.
FnInit ==
    /\ input \in FnInputs
    /\ output = None
    /\ dependents = IF input[1] = "resources" THEN input[2] ELSE TreeFlat
    /\ cfg = [manage |-> FALSE, verbose |-> FALSE, ha |-> FALSE,
               initially |-> "stopped"]
    /\ pc = "start"
    /\ status = [r \in DOMAIN dependents |-> "Unknown"]
    /\ overall = "Unknown"
    /\ hostStatus = "Unknown"
    /\ actual = [r \in DOMAIN dependents |-> "stopped"]
    /\ starting = {}
    /\ log = <<>>
    /\ rpcs = {}
    /\ failed = {}
    /\ lastCalls = <<>>
    /\ consumed = {}
    /\ faults = 0
    /\ stops = 0
    /\ episode = NoEpisode
    /\ since = 0
    /\ fences = <<>>
    /\ config = Unreadable
    /\ iter = <<>>
    /\ cluster = Cluster("none")
    /\ cstatus = <<>>
    /\ mgmt = Idle
    /\ writes = 0
    /\ agents = <<>>
    /\ made = <<>>
    /\ proc = NotStarted
    /\ buf = Off /\ lk = Off /\ grp = Off /\ cmd = Off

\* ResourceStatus::get_worst is applied to the list.
get_worst_call ==
    /\ input[1] = "get_worst"
    /\ output = None
    /\ output' = Some(get_worst(input[2]))
    /\ UNCHANGED <<input, agents, made, proc, engineVars, clusterVars, auxVars>>

\* ocf::Status::from is applied to the exit code.
OcfStatus_from_call ==
    /\ input[1] = "from"
    /\ output = None
    /\ output' = Some(OcfStatusFrom(input[2]))
    /\ UNCHANGED <<input, agents, made, proc, engineVars, clusterVars, auxVars>>

\* ResourceGroup::resources is collected for the tree.
resources_call ==
    /\ input[1] = "resources"
    /\ output = None
    /\ output' = Some(resources)
    /\ UNCHANGED <<input, agents, made, proc, engineVars, clusterVars, auxVars>>

\* Resource::monitor, start or stop returns for the outcome of its RPC.
wrapper_call ==
    /\ input[1] = "wrapper"
    /\ output = None
    /\ output' = Some(RpcWrapper(input[2][2]))
    /\ UNCHANGED <<input, agents, made, proc, engineVars, clusterVars, auxVars>>

\* Host::do_fence returns.
do_fence_call ==
    /\ input[1] = "do_fence"
    /\ output = None
    /\ output' = Some(do_fence(input[2].fence_agent, input[2].command,
                              input[2].run))
    /\ UNCHANGED <<input, agents, made, proc, engineVars, clusterVars, auxVars>>

\* Host::is_powered_on returns.
is_powered_on_call ==
    /\ input[1] = "is_powered_on"
    /\ output = None
    /\ output' = Some(is_powered_on(input[2].fence_agent, input[2].run))
    /\ UNCHANGED <<input, agents, made, proc, engineVars, clusterVars, auxVars>>

\* `halo power` runs and the process ends.
power_call ==
    /\ input[1] = "power"
    /\ output = None
    /\ output' = Some([res |-> power(input[2]),
                     exit |-> exit_status(power(input[2]))])
    /\ UNCHANGED <<input, agents, made, proc, engineVars, clusterVars, auxVars>>

\* `halo start` runs and the process ends.
start_call ==
    /\ input[1] = "start"
    /\ output = None
    /\ output' = Some([res |-> commands_start(input[2]).res,
                     printed |-> commands_start(input[2]).printed,
                     exit |-> exit_status(commands_start(input[2]).res)])
    /\ UNCHANGED <<input, agents, made, proc, engineVars, clusterVars, auxVars>>

\* Cluster::new builds Cluster.hosts; the HashMap it re-keys is iterated in
\* some order.
hosts_call ==
    /\ input[1] = "hosts"
    /\ output = None
    /\ \E order \in Perms(DOMAIN hosts_by_hostname(input[2])) :
          output' = Some(hosts_by_id(input[2], order))
    /\ UNCHANGED <<input, agents, made, proc, engineVars, clusterVars, auxVars>>

\* Buffer::readln returns, panics or waits for more bytes.
readln_call ==
    /\ input[1] = "readln"
    /\ output = None
    /\ output' = Some(readln(input[2].data, input[2].outlen))
    /\ UNCHANGED <<input, agents, made, proc, engineVars, clusterVars, auxVars>>

FnNext ==
    \/ get_worst_call
    \/ OcfStatus_from_call
    \/ resources_call
    \/ wrapper_call
    \/ do_fence_call
    \/ is_powered_on_call
    \/ power_call
    \/ start_call
    \/ hosts_call
    \/ readln_call

FnSpec == FnInit /\ [][FnNext]_vars

-----------------------------------------------------------------------------
(* RPC delivery: the wrappers of a cluster's resources and the agents of   *)
(* its hosts (halo_capnp.rs, resource.rs, remote/mod.rs).                  *)

\* The number of wrapper calls made.
MaxCalls == 2

\* crate::remote_port without HALO_PORT in the environment.
remote_port == 8000

\* Host::address for a host built by Host::from_config from a hostname
\* without a port: "name:port".
address(hostname) == <<hostname, remote_port>>

get_ocf_request_always_home(cl, r, loc) == Some(address(cl.home[r]))

\* get_ocf_request: the address the connection is made to; None when the
\* expect on failover_node panics.
get_ocf_request(cl, r, loc) ==
    IF loc = "Home" THEN Some(address(cl.home[r]))
    ELSE IF cl.failover[r] = None THEN None
    ELSE Some(address(cl.failover[r][1]))

\* A cluster was assembled from a configuration; a remote agent may listen
\* at the address of every host, and no request was sent.
RpcInit ==
    /\ config \in Configs
    /\ iter \in IterOrders(config)
    /\ cluster = new(config, iter)
    /\ cluster.state = "ok"
    /\ cstatus = [r \in DOMAIN cluster.dependents |-> "Unknown"]
    /\ mgmt = Idle
    /\ writes = 0
    /\ agents = [a \in {address(config.hosts[i].hostname) : i \in 1..Len(config.hosts)}
                    |-> <<>>]
    /\ made = <<>>
    /\ input = NoInput
    /\ output = None
    /\ proc = NotStarted
    /\ cfg = [manage |-> FALSE, verbose |-> FALSE, ha |-> FALSE,
               initially |-> "stopped"]
    /\ dependents = TreeFlat
    /\ pc = "start"
    /\ status = [r \in DOMAIN TreeFlat |-> "Unknown"]
    /\ overall = "Unknown"
    /\ hostStatus = "Unknown"
    /\ actual = [r \in DOMAIN TreeFlat |-> "stopped"]
    /\ starting = {}
    /\ log = <<>>
    /\ rpcs = {}
    /\ failed = {}
    /\ lastCalls = <<>>
    /\ consumed = {}
    /\ faults = 0
    /\ stops = 0
    /\ episode = NoEpisode
    /\ since = 0
    /\ fences = <<>>
    /\ buf = Off /\ lk = Off /\ grp = Off /\ cmd = Off

\* The caller of the wrappers has not panicked.
CallerRuns == \A i \in 1..Len(made) : made[i].to # None

\* The record of one wrapper call: the address get_ocf_request chose and
\* whether the connection to it was made.
Made(op, r, loc, to, up) ==
    [op |-> op, r |-> r, loc |-> loc, to |-> to, connected |-> to # None /\ up]

\* The remote agent at the address of a connected call receives the
\* operation (OcfResourceAgentImpl::operation).
Receive(call) ==
    IF call.connected
    THEN [agents EXCEPT ![call.to[1]] = Append(@, <<call.op, call.r>>)]
    ELSE agents

\* Resource::monitor(loc): the request goes to the address get_ocf_request
\* chooses; the connection fails when no agent listens there (up = FALSE).
Resource_monitor(r, loc, up) ==
    /\ Len(made) < MaxCalls
    /\ CallerRuns
    /\ LET call == Made("monitor", r, loc, get_ocf_request(cluster, r, loc), up)
       IN  /\ made' = Append(made, call)
           /\ agents' = Receive(call)
    /\ UNCHANGED <<input, output, proc, engineVars, clusterVars, auxVars>>

\* Resource::start(loc)
Resource_start(r, loc, up) ==
    /\ Len(made) < MaxCalls
    /\ CallerRuns
    /\ LET call == Made("start", r, loc, get_ocf_request(cluster, r, loc), up)
       IN  /\ made' = Append(made, call)
           /\ agents' = Receive(call)
    /\ UNCHANGED <<input, output, proc, engineVars, clusterVars, auxVars>>

\* Resource::stop(): the request is always made with Location::Home.
Resource_stop(r, up) ==
    /\ Len(made) < MaxCalls
    /\ CallerRuns
    /\ LET call == Made("stop", r, "Home", get_ocf_request(cluster, r, "Home"), up)
       IN  /\ made' = Append(made, call)
           /\ agents' = Receive(call)
    /\ UNCHANGED <<input, output, proc, engineVars, clusterVars, auxVars>>

RpcNext ==
    \/ \E r \in DOMAIN cluster.dependents, loc \in {"Home", "Away"}, up \in BOOLEAN :
            Resource_monitor(r, loc, up)
    \/ \E r \in DOMAIN cluster.dependents, loc \in {"Home", "Away"}, up \in BOOLEAN :
            Resource_start(r, loc, up)
    \/ \E r \in DOMAIN cluster.dependents, up \in BOOLEAN : Resource_stop(r, up)

RpcSpec == RpcInit /\ [][RpcNext]_vars

-----------------------------------------------------------------------------
(* The start of the manager process (bin/manager.rs, manager.rs).          *)

\* The RPCs the manager thread issues while the process starts.
MaxRpcs == 2

\* args.config and args.socket
ConfigPath == "this_file_does_not_exist"
SocketPath == "bad_dir/socket"

\* The halo binary was launched without a sub-command, with a configuration
\* file that holds `config` or cannot be read or parsed.
MainInit ==
    /\ config \in Configs
    /\ iter \in IterOrders(config)
    /\ cluster = Cluster("none")
    /\ cstatus = <<>>
    /\ mgmt = Idle
    /\ writes = 0
    /\ proc = [NotStarted EXCEPT !.pc = "main"]
    /\ input = NoInput
    /\ output = None
    /\ agents = <<>>
    /\ made = <<>>
    /\ cfg = [manage |-> FALSE, verbose |-> FALSE, ha |-> FALSE,
               initially |-> "stopped"]
    /\ dependents = TreeFlat
    /\ pc = "start"
    /\ status = [r \in DOMAIN TreeFlat |-> "Unknown"]
    /\ overall = "Unknown"
    /\ hostStatus = "Unknown"
    /\ actual = [r \in DOMAIN TreeFlat |-> "stopped"]
    /\ starting = {}
    /\ log = <<>>
    /\ rpcs = {}
    /\ failed = {}
    /\ lastCalls = <<>>
    /\ consumed = {}
    /\ faults = 0
    /\ stops = 0
    /\ episode = NoEpisode
    /\ since = 0
    /\ fences = <<>>
    /\ buf = Off /\ lk = Off /\ grp = Off /\ cmd = Off

\* The process ends with the exit status st.
Exited(p, st) == [p EXCEPT !.pc = "exited", !.exit = Some(st)]

\* fn main up to the call of manager::main: Cluster::new reports the path of
\* a file it cannot open or parse (why) and returns Err, and main exits; a
\* panic of the assembly ends the process.
bin_main(why) ==
    /\ proc.pc = "main"
    /\ cluster' = new(config, iter)
    /\ cstatus' = IF cluster'.state = "ok"
                  THEN [r \in DOMAIN cluster'.dependents |-> "Unknown"] ELSE <<>>
    /\ proc' = CASE cluster'.state = "error" ->
                      Exited([proc EXCEPT !.stderr = Append(@, <<why, ConfigPath>>)],
                             exit_status("Err"))
                 [] cluster'.state = "panic" ->
                      Exited([proc EXCEPT !.stderr = Append(@, <<"panicked", "cluster.rs">>)],
                             exit_status("panic"))
                 [] OTHER -> [proc EXCEPT !.pc = "manager_main"]
    /\ UNCHANGED <<config, iter, mgmt, writes, input, output, agents, made, engineVars, auxVars>>

\* manager::main, the two runtimes: a runtime that cannot be built is
\* reported and main returns Err; otherwise the manager thread is spawned.
manager_main(manager_rt, cli_rt) ==
    /\ proc.pc = "manager_main"
    /\ proc' = IF ~manager_rt
               THEN Exited([proc EXCEPT !.stderr =
                               Append(@, <<"Could not launch manager runtime", "">>)],
                           exit_status("Err"))
               ELSE IF ~cli_rt
               THEN Exited([proc EXCEPT !.stderr =
                               Append(@, <<"Could not launch CLI server runtime", "">>)],
                           exit_status("Err"))
               ELSE [proc EXCEPT !.pc = "scope"]
    /\ UNCHANGED <<input, output, agents, made, engineVars, clusterVars, auxVars>>

\* The manager thread (manager_main, Cluster::main_loop) issues an RPC.
manager_thread ==
    /\ proc.pc \in {"scope", "listening"}
    /\ proc.rpcs < MaxRpcs
    /\ proc' = [proc EXCEPT !.rpcs = @ + 1]
    /\ UNCHANGED <<input, output, agents, made, engineVars, clusterVars, auxVars>>

\* manager::main, the CLI server: the socket file is removed and the socket
\* is bound; when it cannot be bound the path is reported and the process
\* exits with status 1.
cli_bind(ok) ==
    /\ proc.pc = "scope"
    /\ proc' = IF ok THEN [proc EXCEPT !.pc = "listening", !.bound = TRUE]
               ELSE Exited([proc EXCEPT !.stderr =
                               Append(@, <<"Could not listen on", SocketPath>>),
                                        !.bindErr = TRUE], 1)
    /\ UNCHANGED <<input, output, agents, made, engineVars, clusterVars, auxVars>>

MainNext ==
    \/ \E why \in {"Could not open config file", "Could not parse config file"} :
            bin_main(why)
    \/ \E manager_rt, cli_rt \in BOOLEAN : manager_main(manager_rt, cli_rt)
    \/ manager_thread
    \/ \E ok \in BOOLEAN : cli_bind(ok)

MainSpec == MainInit /\ [][MainNext]_vars

-----------------------------------------------------------------------------
(* The log Buffer (lib.rs): writers and readers in threads of their own.   *)

\* The bytes written in all.
MaxBytes == 3
\* The longest slice given to one write.
MaxWrite == 2
\* The longest buffer given to one read.
MaxBuf == 2

\* The engine, the assembled cluster and the command line tools are not
\* there.
RestOff ==
    /\ input = NoInput
    /\ output = None
    /\ agents = <<>>
    /\ made = <<>>
    /\ proc = NotStarted
    /\ config = Unreadable
    /\ iter = <<>>
    /\ cluster = Cluster("none")
    /\ cstatus = <<>>
    /\ mgmt = Idle
    /\ writes = 0
    /\ cfg = [manage |-> FALSE, verbose |-> FALSE, ha |-> FALSE,
               initially |-> "stopped"]
    /\ dependents = TreeFlat
    /\ pc = "start"
    /\ status = [r \in DOMAIN TreeFlat |-> "Unknown"]
    /\ overall = "Unknown"
    /\ hostStatus = "Unknown"
    /\ actual = [r \in DOMAIN TreeFlat |-> "stopped"]
    /\ starting = {}
    /\ log = <<>>
    /\ rpcs = {}
    /\ failed = {}
    /\ lastCalls = <<>>
    /\ consumed = {}
    /\ faults = 0
    /\ stops = 0
    /\ episode = NoEpisode
    /\ since = 0
    /\ fences = <<>>

Writers == {"w1", "w2"}
Readers == {"r1", "r2"}

\* No thread holds the mutex.
Free == "free"

\* Buffer::new, and every thread outside the Buffer's functions.  `got` is
\* the history of the bytes the reads copied out, `rets` of what the reads
\* returned.
BufferInit ==
    /\ buf = [data |-> <<>>, read_idx |-> 0, new_data_n |-> 0,
              mutex |-> [m \in {"new_data_n", "data", "read_idx"} |-> Free],
              waiting |-> {},
              pc |-> [t \in Writers \cup Readers |-> "idle"],
              arg |-> [t \in Writers \cup Readers |-> 0],
              nread |-> [t \in Readers |-> 0],
              sent |-> [t \in Writers |-> 0],
              got |-> <<>>, rets |-> <<>>]
    /\ lk = Off /\ grp = Off /\ cmd = Off
    /\ RestOff

\* Buffer::write, the entry: the thread w takes the lock of new_data_n for
\* a slice of n bytes.
write_lock(w, n) ==
    /\ buf.pc[w] = "idle"
    /\ Len(buf.data) + n <= MaxBytes
    /\ buf.mutex["new_data_n"] = Free
    /\ buf' = [buf EXCEPT !.mutex["new_data_n"] = w, !.pc[w] = "w_locked",
                          !.arg[w] = n]
    /\ UNCHANGED <<lk, grp, cmd, engineVars, clusterVars, toolVars>>

\* Buffer::write: under the lock of data the slice is appended to the Vec;
\* the j-th byte a writer ever sends is <<w, j>>.
write_append(w) ==
    /\ buf.pc[w] = "w_locked"
    /\ buf.mutex["data"] = Free
    /\ buf' = [buf EXCEPT
                 !.data = @ \o [j \in 1..buf.arg[w] |-> <<w, buf.sent[w] + j>>],
                 !.sent[w] = @ + buf.arg[w],
                 !.pc[w] = "w_appended"]
    /\ UNCHANGED <<lk, grp, cmd, engineVars, clusterVars, toolVars>>

\* Buffer::write, the end: new_data_n grows by n, notify_one wakes one of
\* the waiting threads if there is one, and the lock is released.
write_count(w, woken) ==
    /\ buf.pc[w] = "w_appended"
    /\ woken \subseteq buf.waiting
    /\ Cardinality(woken) = (IF buf.waiting = {} THEN 0 ELSE 1)
    /\ buf' = [buf EXCEPT !.new_data_n = @ + buf.arg[w],
                          !.waiting = @ \ woken,
                          !.mutex["new_data_n"] = Free,
                          !.pc[w] = "idle", !.arg[w] = 0]
    /\ UNCHANGED <<lk, grp, cmd, engineVars, clusterVars, toolVars>>

\* Buffer::read, the entry, with a buffer of len bytes: an empty buffer
\* panics before any lock is taken, otherwise the lock of new_data_n is
\* taken.
read_lock(r, len) ==
    /\ buf.pc[r] = "idle"
    /\ len = 0 \/ buf.mutex["new_data_n"] = Free
    /\ buf' = [buf EXCEPT !.pc[r] = IF len = 0 THEN "panicked" ELSE "r_locked",
                          !.mutex["new_data_n"] = IF len = 0 THEN @ ELSE r,
                          !.arg[r] = len]
    /\ UNCHANGED <<lk, grp, cmd, engineVars, clusterVars, toolVars>>

\* Buffer::read, the while loop: with new_data_n = 0 the thread waits on the
\* condition variable, which releases the lock.
read_wait(r) ==
    /\ buf.pc[r] = "r_locked"
    /\ buf.new_data_n = 0
    /\ buf' = [buf EXCEPT !.mutex["new_data_n"] = Free,
                          !.waiting = @ \cup {r},
                          !.pc[r] = "r_waiting"]
    /\ UNCHANGED <<lk, grp, cmd, engineVars, clusterVars, toolVars>>

\* Condvar::wait returns: the thread was notified, or the wakeup is
\* spurious; it holds the lock again.
read_wake(r) ==
    /\ buf.pc[r] = "r_waiting"
    /\ buf.mutex["new_data_n"] = Free
    /\ buf' = [buf EXCEPT !.mutex["new_data_n"] = r,
                          !.waiting = @ \ {r},
                          !.pc[r] = "r_locked"]
    /\ UNCHANGED <<lk, grp, cmd, engineVars, clusterVars, toolVars>>

\* let diff = new_data_n - buf.len(); 0 if diff < 0
leftover_read(new_data_n, len) ==
    IF new_data_n - len < 0 THEN 0 ELSE new_data_n - len

read_copy_keeps_idx(r) ==
    /\ buf.pc[r] = "r_locked"
    /\ buf.new_data_n > 0
    /\ buf.mutex["data"] = Free /\ buf.mutex["read_idx"] = Free
    /\ LET n == buf.new_data_n - leftover_read(buf.new_data_n, buf.arg[r])
       IN  buf' = [buf EXCEPT
                     !.mutex["data"] = r, !.mutex["read_idx"] = r,
                     !.got = @ \o SubSeq(buf.data, buf.read_idx + 1, buf.read_idx + n),
                     !.nread[r] = n,
                     !.pc[r] = "r_copied"]
    /\ UNCHANGED <<lk, grp, cmd, engineVars, clusterVars, toolVars>>

\* Buffer::read: with data and read_idx locked as well, the slice
\* data[read_idx .. read_idx + new_data_n - leftover_read] is copied out and
\* read_idx moves past it.
read_copy(r) ==
    /\ buf.pc[r] = "r_locked"
    /\ buf.new_data_n > 0
    /\ buf.mutex["data"] = Free /\ buf.mutex["read_idx"] = Free
    /\ LET n == buf.new_data_n - leftover_read(buf.new_data_n, buf.arg[r])
       IN  buf' = [buf EXCEPT
                     !.mutex["data"] = r, !.mutex["read_idx"] = r,
                     !.got = @ \o SubSeq(buf.data, buf.read_idx + 1, buf.read_idx + n),
                     !.read_idx = @ + n,
                     !.nread[r] = n,
                     !.pc[r] = "r_copied"]
    /\ UNCHANGED <<lk, grp, cmd, engineVars, clusterVars, toolVars>>

\* Buffer::read, the end: new_data_n becomes leftover_read, the three locks
\* are released and nread is returned.
read_return(r) ==
    /\ buf.pc[r] = "r_copied"
    /\ buf' = [buf EXCEPT
                 !.new_data_n = leftover_read(buf.new_data_n, buf.arg[r]),
                 !.mutex = [m \in DOMAIN buf.mutex |-> Free],
                 !.rets = Append(@, buf.nread[r]),
                 !.pc[r] = "idle", !.arg[r] = 0, !.nread[r] = 0]
    /\ UNCHANGED <<lk, grp, cmd, engineVars, clusterVars, toolVars>>

BufferNext ==
    \/ \E w \in Writers, n \in 0..MaxWrite : write_lock(w, n)
    \/ \E w \in Writers : write_append(w)
    \/ \E w \in Writers, woken \in SUBSET Readers : write_count(w, woken)
    \/ \E r \in Readers, len \in 0..MaxBuf : read_lock(r, len)
    \/ \E r \in Readers : read_wait(r)
    \/ \E r \in Readers : read_wake(r)
    \/ \E r \in Readers : read_copy(r)
    \/ \E r \in Readers : read_return(r)

BufferSpec == BufferInit /\ [][BufferNext]_vars

-----------------------------------------------------------------------------
(* The locks of one resource group: the engine thread (manager_rt) and the *)
(* thread of the CLI server (cli_rt) use the same Resource, Host and       *)
(* ResourceGroup objects.                                                  *)

Threads == {"engine", "control"}

\* The members of the group, in the order of ResourceGroup::resources.
LockedResources == <<"zpool", "ost">>

\* The Mutex of a resource's status, of the home host's status and of the
\* group's overall status.
StatusLock(r) == <<"status", r>>
HostLock == <<"host", "home">>
OverallLock == <<"overall", "group">>
Locks == {StatusLock(LockedResources[i]) : i \in 1..Len(LockedResources)}
            \cup {HostLock, OverallLock}

\* The statuses the engine of a non-HA group stores.
StoredStatuses == {"Unknown", "Stopped", "RunningOnHome"}

\* Mutex::lock, and the drop of the guard after the value was read
\* (write = None) or replaced.
Lock(l) == [step |-> "lock", lock |-> l, write |-> None]
Drop(l, w) == [step |-> "drop", lock |-> l, write |-> w]

\* *self.status.lock().unwrap(): the guard is a temporary of the statement.
get_status_steps(l) == <<Lock(l), Drop(l, None)>>

\* *self.status.lock().unwrap() = status, and Resource::set_status, where
\* the guard is dropped before the log line is written.
set_status_steps(l, v) == <<Lock(l), Drop(l, Some(v))>>

RECURSIVE MapSteps(_, _)
\* The steps of one call per member, in order; f[r] are the steps for r.
MapSteps(list, f) ==
    IF list = <<>> THEN <<>>
    ELSE f[Head(list)] \o MapSteps(Tail(list), f)

update_overall_status_nested ==
    <<Lock(OverallLock)>>
        \o MapSteps(LockedResources,
                    [r \in SeqToSet(LockedResources) |->
                        get_status_steps(StatusLock(r))])

\* update_overall_status, the first statement: get_status of every member.
update_overall_status_steps ==
    MapSteps(LockedResources,
             [r \in SeqToSet(LockedResources) |-> get_status_steps(StatusLock(r))])

LockInit ==
    /\ lk = [holder |-> [l \in Locks |-> Free],
             value |-> [l \in Locks |-> "Unknown"],
             todo |-> [t \in Threads |-> <<>>],
             acc |-> [t \in Threads |-> <<>>],
             phase |-> [t \in Threads |-> IF t = "engine" THEN "first" ELSE "idle"]]
    /\ cfg \in {[manage |-> m, verbose |-> FALSE, ha |-> FALSE,
                 initially |-> "stopped"] : m \in BOOLEAN}
    /\ buf = Off /\ grp = Off /\ cmd = Off
    /\ input = NoInput
    /\ output = None
    /\ agents = <<>>
    /\ made = <<>>
    /\ proc = NotStarted
    /\ config = Unreadable
    /\ iter = <<>>
    /\ cluster = Cluster("none")
    /\ cstatus = <<>>
    /\ mgmt = Idle
    /\ writes = 0
    /\ dependents = TreeFlat
    /\ pc = "start"
    /\ status = [r \in DOMAIN TreeFlat |-> "Unknown"]
    /\ overall = "Unknown"
    /\ hostStatus = "Unknown"
    /\ actual = [r \in DOMAIN TreeFlat |-> "stopped"]
    /\ starting = {}
    /\ log = <<>>
    /\ rpcs = {}
    /\ failed = {}
    /\ lastCalls = <<>>
    /\ consumed = {}
    /\ faults = 0
    /\ stops = 0
    /\ episode = NoEpisode
    /\ since = 0
    /\ fences = <<>>

\* The thread t holds the lock l.
Holds(t, l) == lk.holder[l] = t

\* Mutex::lock returns: the lock was free and t holds it now.
mutex_lock(t) ==
    /\ lk.todo[t] # <<>>
    /\ Head(lk.todo[t]).step = "lock"
    /\ lk.holder[Head(lk.todo[t]).lock] = Free
    /\ lk' = [lk EXCEPT !.holder[Head(lk.todo[t]).lock] = t,
                        !.todo[t] = Tail(@)]
    /\ UNCHANGED <<buf, grp, cmd, engineVars, clusterVars, toolVars>>

\* The guard is dropped: the value was read into the thread's results or
\* replaced, and the lock is free.
mutex_drop(t) ==
    /\ lk.todo[t] # <<>>
    /\ Head(lk.todo[t]).step = "drop"
    /\ LET op == Head(lk.todo[t])
       IN  lk' = [lk EXCEPT
                    !.holder[op.lock] = Free,
                    !.value[op.lock] = IF op.write = None THEN @ ELSE op.write[1],
                    !.acc[t] = IF op.write = None
                               THEN Append(@, lk.value[op.lock]) ELSE @,
                    !.todo[t] = Tail(@)]
    /\ UNCHANGED <<buf, grp, cmd, engineVars, clusterVars, toolVars>>

\* manage_non_ha, the head of the loop: get_overall_status.
lk_get_overall_status ==
    /\ cfg.manage
    /\ lk.phase["engine"] = "tick"
    /\ lk.todo["engine"] = <<>>
    /\ lk' = [lk EXCEPT !.todo["engine"] = get_status_steps(OverallLock),
                        !.acc["engine"] = <<>>,
                        !.phase["engine"] = "match"]
    /\ UNCHANGED <<buf, grp, cmd, engineVars, clusterVars, toolVars>>

\* update_resources, after the monitor RPCs returned with the results res:
\* set_status of every member, then set_status of the home host.
lk_update_resources(res) ==
    /\ cfg.manage
    /\ lk.todo["engine"] = <<>>
    /\ \/ lk.phase["engine"] = "first"
       \/ /\ lk.phase["engine"] = "match"
          /\ lk.acc["engine"][1] \in {"Unknown", "RunningOnHome"}
    /\ lk' = [lk EXCEPT
                !.todo["engine"] =
                    MapSteps(LockedResources,
                             [r \in SeqToSet(LockedResources) |->
                                 set_status_steps(StatusLock(r), res[r])])
                    \o set_status_steps(HostLock,
                          IF \E r \in DOMAIN res : res[r] = "Unknown"
                          THEN "Unknown" ELSE "Up"),
                !.phase["engine"] =
                    IF lk.phase["engine"] = "first" THEN "tick" ELSE "acted"]
    /\ UNCHANGED <<buf, grp, cmd, engineVars, clusterVars, toolVars>>

RECURSIVE start_steps(_, _)
\* start_if_needed_recursive down the chain of members: is_running reads
\* the status, a member that is not running is started and its status set
\* from the result, is_running reads again, and the dependents follow only
\* if it runs.
start_steps(list, res) ==
    IF list = <<>> THEN <<>>
    ELSE LET l == StatusLock(Head(list))
             runs == is_running(lk.value[l])
             after == IF runs THEN lk.value[l] ELSE res[Head(list)]
         IN  get_status_steps(l)
               \o (IF runs THEN <<>> ELSE set_status_steps(l, after))
               \o get_status_steps(l)
               \o (IF is_running(after)
                   THEN start_steps(Tail(list), res) ELSE <<>>)

\* try_start_resources with the results res of the Start RPCs.
lk_try_start_resources(res) ==
    /\ cfg.manage
    /\ lk.todo["engine"] = <<>>
    /\ lk.phase["engine"] = "match"
    /\ lk.acc["engine"][1] = "Stopped"
    /\ lk' = [lk EXCEPT !.todo["engine"] = start_steps(LockedResources, res),
                        !.phase["engine"] = "acted"]
    /\ UNCHANGED <<buf, grp, cmd, engineVars, clusterVars, toolVars>>

\* update_overall_status begins.
lk_update_overall_status ==
    /\ lk.todo["engine"] = <<>>
    /\ lk.phase["engine"] = "acted"
    /\ lk' = [lk EXCEPT !.todo["engine"] = update_overall_status_steps,
                        !.acc["engine"] = <<>>,
                        !.phase["engine"] = "worst"]
    /\ UNCHANGED <<buf, grp, cmd, engineVars, clusterVars, toolVars>>

\* update_overall_status ends: set_overall_status(get_worst(statuses)).
lk_set_overall_status ==
    /\ lk.todo["engine"] = <<>>
    /\ lk.phase["engine"] = "worst"
    /\ lk' = [lk EXCEPT
                !.todo["engine"] =
                    set_status_steps(OverallLock, get_worst(lk.acc["engine"])),
                !.phase["engine"] = "set"]
    /\ UNCHANGED <<buf, grp, cmd, engineVars, clusterVars, toolVars>>

\* tokio::time::sleep at the end of the loop of manage_non_ha.
lk_sleep ==
    /\ lk.todo["engine"] = <<>>
    /\ lk.phase["engine"] = "set"
    /\ lk' = [lk EXCEPT !.phase["engine"] = "tick", !.acc["engine"] = <<>>]
    /\ UNCHANGED <<buf, grp, cmd, engineVars, clusterVars, toolVars>>

\* observe_loop of the member r, after its monitor RPC returned: the
\* status is locked, replaced by s and the guard dropped.
lk_observe_loop(r, s) ==
    /\ ~cfg.manage
    /\ lk.todo["engine"] = <<>>
    /\ lk' = [lk EXCEPT !.todo["engine"] = set_status_steps(StatusLock(r), s),
                        !.phase["engine"] = "observe"]
    /\ UNCHANGED <<buf, grp, cmd, engineVars, clusterVars, toolVars>>

\* HaloMgmtImpl::monitor is called: get_status of every resource.
lk_monitor ==
    /\ lk.phase["control"] = "idle"
    /\ lk' = [lk EXCEPT
                !.todo["control"] =
                    MapSteps(LockedResources,
                             [r \in SeqToSet(LockedResources) |->
                                 get_status_steps(StatusLock(r))]),
                !.acc["control"] = <<>>,
                !.phase["control"] = "serving"]
    /\ UNCHANGED <<buf, grp, cmd, engineVars, clusterVars, toolVars>>

\* HaloMgmtImpl::monitor returns its results.
lk_monitor_reply ==
    /\ lk.phase["control"] = "serving"
    /\ lk.todo["control"] = <<>>
    /\ lk' = [lk EXCEPT !.phase["control"] = "idle"]
    /\ UNCHANGED <<buf, grp, cmd, engineVars, clusterVars, toolVars>>

LockNext ==
    \/ \E t \in Threads : mutex_lock(t)
    \/ \E t \in Threads : mutex_drop(t)
    \/ lk_get_overall_status
    \/ \E res \in [SeqToSet(LockedResources) -> StoredStatuses] :
          lk_update_resources(res)
    \/ \E res \in [SeqToSet(LockedResources) -> StoredStatuses] :
          lk_try_start_resources(res)
    \/ lk_update_overall_status
    \/ lk_set_overall_status
    \/ lk_sleep
    \/ \E r \in SeqToSet(LockedResources), s \in StoredStatuses :
          lk_observe_loop(r, s)
    \/ lk_monitor
    \/ lk_monitor_reply

\* Both threads are scheduled; a thread that waits for a Mutex gets it, as
\* the other thread holds a lock for one statement only and then sleeps or
\* waits for an RPC.
LockSpec ==
    /\ LockInit
    /\ [][LockNext]_vars
    /\ \A t \in Threads : SF_vars(mutex_lock(t)) /\ WF_vars(mutex_drop(t))
    /\ WF_vars(lk_monitor_reply)

-----------------------------------------------------------------------------
(* Cluster::main_loop in manage mode: the loops of all resource groups are *)
(* the members of one join_all, polled by the one task of manager_main.    *)

\* The resource groups of a cluster.
MaxGroups == 3
\* The ticks of one group that are followed.
MaxTicks == 2

\* A cluster of some groups, each with or without a failover node; no
\* future was polled yet.
GroupsInit ==
    /\ \E n \in 1..MaxGroups :
         \E ha \in [1..n -> BOOLEAN] :
            grp = [ha |-> ha,
                   at |-> [g \in 1..n |-> "new"],
                   ticks |-> [g \in 1..n |-> 0],
                   polled |-> 0,
                   task |-> "running"]
    /\ buf = Off /\ lk = Off /\ cmd = Off
    /\ RestOff

\* join_all polls the loop of the next group for the first time; the root
\* has a failover node: manage_loop calls manage_ha, whose check_location
\* is todo!(), and the panic unwinds the task that polls all the groups.
groups_manage_ha(g) ==
    /\ grp.task = "running"
    /\ g = grp.polled + 1
    /\ g \in DOMAIN grp.ha
    /\ grp.ha[g]
    /\ grp' = [grp EXCEPT !.polled = g, !.at[g] = "panicked",
                          !.task = "panicked"]
    /\ UNCHANGED <<buf, lk, cmd, engineVars, clusterVars, toolVars>>

\* join_all polls the loop of the next group for the first time; the root
\* has no failover node: manage_non_ha sends the monitor RPCs of its
\* first update_resources and waits for them.
groups_manage_non_ha(g) ==
    /\ grp.task = "running"
    /\ g = grp.polled + 1
    /\ g \in DOMAIN grp.ha
    /\ ~grp.ha[g]
    /\ grp' = [grp EXCEPT !.polled = g, !.at[g] = "awaiting"]
    /\ UNCHANGED <<buf, lk, cmd, engineVars, clusterVars, toolVars>>

\* The RPCs of the group g have returned and the task is polled again: the
\* statuses of the members and of the group are updated and the group
\* sleeps.  (RPCs that never return leave the group where it is.)
groups_rpcs_return(g) ==
    /\ grp.task = "running"
    /\ g \in DOMAIN grp.ha
    /\ grp.polled = Len(grp.ha)
    /\ grp.at[g] = "awaiting"
    /\ grp.ticks[g] < MaxTicks
    /\ grp' = [grp EXCEPT !.at[g] = "sleeping", !.ticks[g] = @ + 1]
    /\ UNCHANGED <<buf, lk, cmd, engineVars, clusterVars, toolVars>>

\* The sleep of the group g is over and the task is polled again: the RPCs
\* of the next tick are sent.
groups_sleep_over(g) ==
    /\ grp.task = "running"
    /\ g \in DOMAIN grp.ha
    /\ grp.polled = Len(grp.ha)
    /\ grp.at[g] = "sleeping"
    /\ grp' = [grp EXCEPT !.at[g] = "awaiting"]
    /\ UNCHANGED <<buf, lk, cmd, engineVars, clusterVars, toolVars>>

GroupsNext ==
    \/ \E g \in 1..MaxGroups : groups_manage_ha(g)
    \/ \E g \in 1..MaxGroups : groups_manage_non_ha(g)
    \/ \E g \in 1..MaxGroups : groups_rpcs_return(g)
    \/ \E g \in 1..MaxGroups : groups_sleep_over(g)

GroupsSpec == GroupsInit /\ [][GroupsNext]_vars

-----------------------------------------------------------------------------
(* The start command (commands/start.rs) with its RPCs in flight.          *)

\* The resources of the cluster that is started.
MaxResources == 3

\* What the filters of Cluster look at: Resource.kind and, for a Lustre
\* target, parameters["kind"].
StartPool == [kind |-> ZFS, target |-> ""]
StartTarget(t) == [kind |-> Lustre, target |-> t]

\* Cluster::zpool_resources, as positions in Cluster::resources
zpool_resources(rs) == {i \in DOMAIN rs : rs[i].kind = ZFS}

\* Cluster::lustre_resources
lustre_resources(rs) == {i \in DOMAIN rs : rs[i].kind = Lustre}

\* Cluster::lustre_resources_no_mgs
lustre_resources_no_mgs(rs) ==
    {i \in lustre_resources(rs) : rs[i].target # "mgs"}

\* Cluster::get_mgs: find gives the first one.
get_mgs(rs) ==
    LET all == {i \in lustre_resources(rs) : rs[i].target = "mgs"}
    IN  IF all = {} THEN None
        ELSE Some(CHOOSE i \in all : \A j \in all : i <= j)

\* The Start RPCs of the resources S are sent, in the order of
\* Cluster::resources: the events added to the history.
Issues(S) == [k \in 1..Cardinality(S) |-> <<"issue", Ascending(S)[k]>>]

\* The command begins with a cluster of some resources; `events` is the
\* history of the RPCs sent and returned.
StartInit ==
    /\ \E n \in 1..MaxResources :
         \E rs \in [1..n -> {StartPool, StartTarget("mgs"), StartTarget("mdt"), StartTarget("ost")}] :
            cmd = [resources |-> rs, phase |-> "new", inflight |-> {},
                   events |-> <<>>]
    /\ buf = Off /\ lk = Off /\ grp = Off
    /\ RestOff

\* 1. All zpools: join_all polls the futures and every Start is sent.
start_zpools ==
    /\ cmd.phase = "new"
    /\ cmd' = [cmd EXCEPT !.phase = "zpools",
                          !.inflight = zpool_resources(cmd.resources),
                          !.events = @ \o Issues(zpool_resources(cmd.resources))]
    /\ UNCHANGED <<buf, lk, grp, engineVars, clusterVars, toolVars>>

\* One of the RPCs in flight returns (with any result).
start_rpc_returns(r) ==
    /\ r \in cmd.inflight
    /\ cmd' = [cmd EXCEPT !.inflight = @ \ {r},
                          !.events = Append(@, <<"done", r>>)]
    /\ UNCHANGED <<buf, lk, grp, engineVars, clusterVars, toolVars>>

start_mgs_early ==
    /\ cmd.phase = "zpools"
    /\ LET mgs == get_mgs(cmd.resources)
       IN  cmd' = [cmd EXCEPT !.phase = "mgs",
                              !.inflight = @ \cup SeqToSet(mgs),
                              !.events = @ \o Issues(SeqToSet(mgs))]
    /\ UNCHANGED <<buf, lk, grp, engineVars, clusterVars, toolVars>>

\* 2. Lustre MGS target: join_all of the zpools has returned; the Start of
\* get_mgs() is sent if there is one.
start_mgs ==
    /\ cmd.phase = "zpools"
    /\ cmd.inflight = {}
    /\ LET mgs == get_mgs(cmd.resources)
       IN  cmd' = [cmd EXCEPT !.phase = "mgs",
                              !.inflight = SeqToSet(mgs),
                              !.events = @ \o Issues(SeqToSet(mgs))]
    /\ UNCHANGED <<buf, lk, grp, engineVars, clusterVars, toolVars>>

\* 3. All remaining Lustre targets: the Start of the MGS has returned (or
\* there was none); the Starts of lustre_resources_no_mgs are sent.
start_targets ==
    /\ cmd.phase = "mgs"
    /\ cmd.inflight = {}
    /\ cmd' = [cmd EXCEPT
                 !.phase = "targets",
                 !.inflight = lustre_resources_no_mgs(cmd.resources),
                 !.events = @ \o Issues(lustre_resources_no_mgs(cmd.resources))]
    /\ UNCHANGED <<buf, lk, grp, engineVars, clusterVars, toolVars>>

\* The last join_all has returned: Ok(()).
start_returns ==
    /\ cmd.phase = "targets"
    /\ cmd.inflight = {}
    /\ cmd' = [cmd EXCEPT !.phase = "done"]
    /\ UNCHANGED <<buf, lk, grp, engineVars, clusterVars, toolVars>>

StartNext ==
    \/ start_zpools
    \/ \E r \in 1..MaxResources : start_rpc_returns(r)
    \/ start_mgs
    \/ start_targets
    \/ start_returns

StartSpec == StartInit /\ [][StartNext]_vars

-----------------------------------------------------------------------------
(* Properties.                                                             *)

NonHaManage == cfg.manage /\ ~cfg.ha

Running == {"RunningOnHome", "RunningOnAway"}

IsPrefix(a, b) == Len(a) <= Len(b) /\ a = SubSeq(b, 1, Len(a))

\* The order of ResourceStatus as the specification states it, worst first.
StatedOrder ==
    <<"Unknown", "Unrunnable", "Stopped", "CheckingAway", "CheckingHome",
      "RunningOnAway", "RunningOnHome">>

StatedRank(s) == CHOOSE i \in 1..Len(StatedOrder) : StatedOrder[i] = s

\* C1: in non-HA manage mode, at the end of every tick (right after
\* update_overall_status, while the loop sleeps) the aggregate status of the
\* group is the minimum of the current member statuses under the order
\* Unknown < Unrunnable < Stopped < CheckingAway < CheckingHome <
\* RunningOnAway < RunningOnHome.
C1_AggregateIsWorst ==
    (NonHaManage /\ pc = "sleep") =>
        /\ \E r \in Resources : overall = status[r]
        /\ \A r \in Resources : StatedRank(overall) <= StatedRank(status[r])

\* A tick ended with members in different statuses.
C1_Witness ==
    /\ NonHaManage
    /\ pc = "sleep"
    /\ overall = "Stopped"
    /\ \E r \in Resources : status[r] = "RunningOnHome"

\* The log the recovery test expects after startup: every member from
\* Unknown to Stopped, then every member from Stopped to RunningOnHome, both
\* in the order of resources().
StartupLog ==
    [i \in 1..Len(resources) |-> <<resources[i], "Unknown", "Stopped">>]
        \o [i \in 1..Len(resources) |-> <<resources[i], "Stopped", "RunningOnHome">>]

\* C2: in non-HA manage mode with verbose logging, when every resource is
\* stopped at startup and the agent answers every RPC healthily, the log of
\* the group is one 'Unknown to Stopped' line per resource in the order of
\* resources(), then one 'Stopped to RunningOnHome' line per resource in the
\* same order, and nothing in between: at every moment the log is a prefix of
\* that sequence.
C2_StartupLogInOrder ==
    (NonHaManage /\ cfg.verbose /\ cfg.initially = "stopped"
        /\ faults = 0 /\ stops = 0)
    => IsPrefix(log, StartupLog)

\* The two lines the recovery test expects after resource r was stopped.
RecoveryLog(r) ==
    <<<<r, "RunningOnHome", "Stopped">>, <<r, "Stopped", "RunningOnHome">>>>

OpenEpisode ==
    /\ NonHaManage /\ cfg.verbose
    /\ episode.clean /\ faults = 0
    /\ Len(log) < episode.at + 2

\* C3: in non-HA manage mode with a healthy agent, after one running resource
\* is stopped externally while the aggregate is RunningOnHome (and no other
\* resource is down), the lines logged from then on start with
\* 'RunningOnHome to Stopped' and 'Stopped to RunningOnHome' for that
\* resource, with no line of another resource before them, and both lines are
\* logged before the manager task has taken RecoverySteps steps.
C3_StopIsRecovered ==
    /\ (NonHaManage /\ cfg.verbose /\ episode.clean /\ faults = 0) =>
            LET lines == SubSeq(log, episode.at + 1, Len(log))
            IN  \/ IsPrefix(lines, RecoveryLog(episode.r))
                \/ IsPrefix(RecoveryLog(episode.r), lines)
    /\ OpenEpisode => since < RecoverySteps

\* Both recovery lines of a stopped dependent have been logged.
C3_Witness ==
    /\ NonHaManage /\ cfg.verbose
    /\ episode.clean /\ faults = 0
    /\ episode.r # root
    /\ SubSeq(log, episode.at + 1, Len(log)) = RecoveryLog(episode.r)

\* C4: a Start RPC is issued for a resource only if its recorded status at
\* that moment is neither RunningOnHome nor RunningOnAway.
C4_StartOnlyIfNotRunning ==
    [][\A r \in starting' \ starting : status'[r] \notin Running]_vars

\* A Start is in flight for a dependent while the root and another dependent
\* are recorded as running and received none.
C4_Witness ==
    /\ pc = "starting"
    /\ starting # {}
    /\ root \notin starting
    /\ \E q \in Resources \ (starting \cup {root}) :
          /\ status[q] = "RunningOnHome"
          /\ <<"Start", "Home", q>> \notin rpcs
    /\ <<"Start", "Home", root>> \notin rpcs

\* C5: within one tick of try_start_resources a Start for a dependent is
\* issued only when its parent (and so every ancestor) is recorded as
\* running; no Start is issued in the tick for a descendant of a resource
\* whose Start did not succeed in that tick.
C5_ChildAfterParent ==
    [][/\ \A r \in starting' \ starting :
            \A a \in Ancestors(r) : status'[a] \in Running
       /\ \A r \in Resources :
            <<"Start", "Home", r>> \in rpcs' => Ancestors(r) \cap failed' = {}]_vars

\* A tick ended in which the Start of a resource with dependents failed and
\* none of its dependents was attempted.
C5_Witness ==
    /\ pc = "sleep"
    /\ \E f \in failed :
          /\ dependents[f] # <<>>
          /\ \A d \in SeqToSet(dependents[f]) :
                status[d] \notin Running /\ <<"Start", "Home", d>> \notin rpcs

Impossible == {"RunningOnAway", "CheckingHome", "CheckingAway"}

\* C6: in a group without a failover node running the manage loop, no member
\* status and no aggregate status is ever RunningOnAway, CheckingHome or
\* CheckingAway, and the panic branches of manage_non_ha are never taken.
C6_NoAwayStatesInNonHa ==
    NonHaManage =>
        /\ \A r \in Resources : status[r] \notin Impossible
        /\ overall \notin Impossible
        /\ pc # "panic_state"

\* The loop went on after a faulty outcome and the group is up again.
C6_Witness ==
    /\ NonHaManage
    /\ pc = "sleep"
    /\ faults > 0
    /\ overall = "RunningOnHome"

\* Outcomes that are transport errors or remote-execution errors.
ErrorOutcomes == {<<"transport", 0>>, <<"spawn_fail", 0>>, <<"signal", 0>>}

\* C7: in the observe loop and the non-HA manage loop, whenever a Monitor or
\* Start RPC for a resource ends in a transport error or a remote-execution
\* error, the status of that resource is set to Unknown and the loop goes on
\* without panicking.
C7_ErrorsGiveUnknown ==
    (pc # "panic_todo") =>
        /\ \A x \in consumed : x[3] \in ErrorOutcomes => status[x[2]] = "Unknown"
        /\ pc \notin {"panic_state", "panic_host"}

\* C8: the status of the host is never Down, and the engine never asks
\* Host::set_status to store Down (the call that would be rejected).
C8_HostNeverDown ==
    /\ hostStatus \in {"Up", "Unknown"}
    /\ pc # "panic_host"

\* update_resources has just written Unknown to the host after a transport
\* error.
C8_Witness ==
    /\ \E x \in consumed : x[1] = "Monitor" /\ x[3] = <<"transport", 0>>
    /\ cfg.manage
    /\ hostStatus = "Unknown"
    /\ overall = "Unknown"
    /\ pc = "sleep"

\* What the set_status calls of one step must do to the statuses and the log.
RECURSIVE Replay(_, _, _)
Replay(st, lg, calls) ==
    IF calls = <<>> THEN [st |-> st, lg |-> lg]
    ELSE LET r == calls[1][1]
             s == calls[1][2]
             line == <<r, st[r], s>>
         IN  Replay([st EXCEPT ![r] = s],
                    IF cfg.verbose /\ st[r] # s THEN lg \o <<line>> ELSE lg,
                    Tail(calls))

\* C9: every call set_status(r, s) writes exactly one line 'from <old> to
\* <new>', with <old> the value stored just before the call, if and only if s
\* differs from that value and verbose is on; otherwise it writes nothing;
\* the stored status is s afterwards.  Nothing else writes to the log.
C9_OneLinePerChange ==
    [][LET R == Replay(status, log, lastCalls')
       IN  /\ log' = R.lg
           /\ lastCalls' # <<>> => status' = R.st]_vars

\* One step called set_status for every member and wrote a line for exactly
\* one of them: the resource that had been stopped.
C9_Witness ==
    /\ cfg.verbose
    /\ episode.clean
    /\ Len(lastCalls) = Cardinality(Resources)
    /\ Len(log) = episode.at + 1
    /\ log[Len(log)] = <<episode.r, "RunningOnHome", "Stopped">>

\* The status the specification assigns to the result of one poll.
StatedObserveStatus(res) ==
    IF ~res.ok THEN "Unknown"
    ELSE IF res.st = "Success" THEN "RunningOnHome"
    ELSE IF res.st = "ErrNotRunning" THEN "Stopped"
    ELSE "Unknown"

\* C10: in observe mode each poll of a resource sends Monitor(Home) and
\* assigns the status from the outcome alone: Success gives RunningOnHome,
\* ErrNotRunning gives Stopped, any other status or a transport error gives
\* Unknown; the status of no other resource changes.
C10_ObserveMapsOutcome ==
    [][pc' = "observe" =>
        /\ rpcs' \subseteq {<<"Monitor", "Home", r>> : r \in Resources}
        /\ \A x \in consumed' :
            /\ x[1] = "Monitor"
            /\ status'[x[2]] = StatedObserveStatus(RpcWrapper(x[3]))
            /\ \A q \in Resources \ {x[2]} : status'[q] = status[q]]_vars

\* A poll answered with an error status other than ErrNotRunning moved a
\* resource to Unknown while another resource stays RunningOnHome.
C10_Witness ==
    /\ pc = "observe"
    /\ \E x \in consumed :
          /\ RpcWrapper(x[3]) = Ok("ErrGeneric")
          /\ status[x[2]] = "Unknown"
          /\ \E q \in Resources \ {x[2]} : status[q] = "RunningOnHome"

\* C11: in observe mode the only RPC ever sent is Monitor(Home): no Start and
\* no Stop is issued, no Start is in flight, no reply other than a Monitor's
\* is consumed and no fencing request is made, whatever the outcomes are.
C11_ObserveOnlyMonitors ==
    ~cfg.manage =>
        /\ \A x \in rpcs : x[1] = "Monitor" /\ x[2] = "Home"
        /\ \A x \in consumed : x[1] = "Monitor"
        /\ starting = {}
        /\ fences = <<>>

\* An observed resource was found stopped and another one could not be
\* monitored; the observe loop goes on polling.
C11_Witness ==
    /\ ~cfg.manage
    /\ pc = "observe"
    /\ faults > 0
    /\ \E r, q \in Resources : status[r] = "Stopped" /\ status[q] = "Unknown"
    /\ consumed # {}

\* C12: in observe mode with verbose on, a running resource and a healthy
\* agent, once a poll of a resource has completed its status is RunningOnHome
\* and the log holds exactly one line 'from Unknown to RunningOnHome' for it.
C12_ObservePollLogsLine ==
    (~cfg.manage /\ cfg.verbose /\ cfg.initially = "running"
        /\ faults = 0 /\ stops = 0)
    => \A x \in consumed :
          /\ status[x[2]] = "RunningOnHome"
          /\ Cardinality({i \in 1..Len(log) :
                 log[i] = <<x[2], "Unknown", "RunningOnHome">>}) = 1

\* The status the specification assigns to the outcome of one Monitor(Home).
StatedMonitorStatus(o) ==
    CASE o = <<"exit", 0>> -> "RunningOnHome"
      [] o = <<"exit", 7>> -> "Stopped"
      [] OTHER             -> "Unknown"

\* C13: when update_resources(Home) has completed, the reply of every member
\* was consumed, every member's status is the one its own reply gives (Success
\* RunningOnHome, ErrNotRunning Stopped, anything else Unknown), and the home
\* host's status is Unknown if some member's monitor ended in a transport
\* error and Up otherwise.
C13_UpdateResourcesRecords ==
    (cfg.manage /\ \E x \in consumed : x[1] = "Monitor") =>
        /\ \A r \in Resources : \E x \in consumed : x[2] = r
        /\ \A x \in consumed : status[x[2]] = StatedMonitorStatus(x[3])
        /\ hostStatus = IF \E x \in consumed : x[3] = <<"transport", 0>>
                        THEN "Unknown" ELSE "Up"

\* A member answered with an error status: it is Unknown while another member
\* is RunningOnHome, and the host is Up.
C13_Witness ==
    /\ cfg.manage
    /\ \E x \in consumed :
          /\ x[1] = "Monitor" /\ x[3] = <<"exit", 1>>
          /\ status[x[2]] = "Unknown"
    /\ \E r \in Resources : status[r] = "RunningOnHome"
    /\ hostStatus = "Up"

HaManage == cfg.manage /\ cfg.ha

\* The positions at which the group's task has panicked.
Panicked == {"panic_todo", "panic_state", "panic_host"}

\* C18: in HA manage mode a Start(Away) is sent only after a do_fence(Off) on
\* the home host has succeeded; after a failed fencing request no Start(Away)
\* is sent, the group is Unknown and the loop is there to retry on the next
\* tick.
C18_FenceBeforeAwayStart ==
    HaManage =>
        /\ (\E r \in Resources : <<"Start", "Away", r>> \in rpcs)
              => \E i \in 1..Len(fences) : fences[i] = <<"Off", "ok">>
        /\ (fences # <<>> /\ fences[Len(fences)] = <<"Off", "failed">>)
              => /\ overall = "Unknown"
                 /\ \A r \in Resources : <<"Start", "Away", r>> \notin rpcs
        /\ pc \notin Panicked

\* C19: in HA manage mode a group in status Unknown is resolved by probing:
\* once the task runs, Monitor(Home) has been sent to every member, and when
\* every member answered Success the group is RunningOnHome.
C19_UnknownResolvesByProbing ==
    (HaManage /\ pc # "start") =>
        /\ Monitors(Resources) \subseteq rpcs
        /\ (\A r \in Resources : <<"Monitor", r, <<"exit", 0>>>> \in consumed)
              => overall = "RunningOnHome"

\* C20: in HA manage mode with every resource stopped the group does not stay
\* where it started: the task goes through Stopped to a start at Home and, if
\* that fails, through CheckingAway to RunningOnAway or Unrunnable, and it
\* retries on the next tick; so as long as the group is not running, the task
\* has work in flight or a tick ahead.
C20_HomeStartFailureFailsOver ==
    (HaManage /\ pc # "start" /\ cfg.initially = "stopped"
        /\ overall \notin Running)
    => \/ rpcs # {}
       \/ pc \in {"sleep", "loop"}

RECURSIVE Concat(_)
Concat(ss) == IF ss = <<>> THEN <<>> ELSE Head(ss) \o Concat(Tail(ss))

\* Breadth-first order stated level by level: the resources one level down
\* are the dependents of the resources of this level, in order.
RECURSIVE LevelOrder(_, _)
LevelOrder(dep, level) ==
    IF level = <<>> THEN <<>>
    ELSE level \o LevelOrder(dep, Concat([i \in 1..Len(level) |-> dep[level[i]]]))

\* The enumeration order of the cluster as the specification states it: the
\* groups in assembly order, breadth-first within each group.
StatedEnumeration(cl) ==
    Concat([g \in 1..Len(cl.groups) |-> LevelOrder(cl.dependents, <<cl.groups[g]>>)])

\* C14: a reply of the control channel's monitor() has exactly one entry per
\* resource of the cluster, in the cluster's enumeration order, each with the
\* full parameter map of its resource; every entry that is written carries the
\* status its resource holds at that moment, whatever the engine stores
\* before and after.
C14_SnapshotInEnumerationOrder ==
    [][LET e == mgmt'.entries
           en == StatedEnumeration(cluster)
       IN  /\ mgmt'.pc = "replied" =>
                /\ Len(e) = Cardinality(DOMAIN cluster.dependents)
                /\ Len(e) = Len(en)
                /\ \A i \in 1..Len(e) : e[i].parameters = cluster.parameters[en[i]]
           /\ Len(e) = Len(mgmt.entries) + 1 =>
                e[Len(e)].status = <<"Status", cstatus[en[Len(e)]]>>]_vars

\* A reply for a cluster of two groups is complete; the engine stored a
\* status after the entry of that resource had been written.
C14_Witness ==
    /\ mgmt.pc = "replied"
    /\ Len(cluster.groups) = 2
    /\ Len(mgmt.entries) = 4
    /\ writes > 0
    /\ \E i \in 1..Len(mgmt.entries) :
          mgmt.entries[i].status # <<"Status", cstatus[StatedEnumeration(cluster)[i]]>>

\* C15: for a fixed configuration every iteration order of the hosts' resource
\* maps gives the same assembled resources: the same ordered dependents list
\* for every resource and the same home, failover host, parameters and kind.
C15_AssemblyOrderIndependent ==
    cluster.state = "ok" =>
        \A it \in IterOrders(config) :
            LET other == new(config, it)
            IN  /\ other.dependents = cluster.dependents
                /\ other.home = cluster.home
                /\ other.failover = cluster.failover
                /\ other.parameters = cluster.parameters
                /\ other.kind = cluster.kind

\* Some resource of c requires an id that is not a resource of its host.
Unresolved(c) ==
    \E i \in 1..Len(c.hosts) :
        \E id \in DOMAIN c.hosts[i].resources :
            LET requires == c.hosts[i].resources[id].requires
            IN  requires # None /\ requires[1] \notin DOMAIN c.hosts[i].resources

\* C16: assembling a configuration with a `requires` that names no resource
\* of the same host ends with a configuration error returned to the caller:
\* not with a panic and not with a cluster.
C16_UnresolvedRequiresIsError ==
    (cluster.state # "none" /\ config.readable /\ Unresolved(config))
        => cluster.state = "error"

\* The failover partner of host hn as the specification states it: the other
\* host of the first pair hn appears in, absent without the section or
\* without such a pair.
StatedPartner(c, hn) ==
    IF c.failover_pairs = None THEN None
    ELSE LET pairs == c.failover_pairs[1]
             with == {i \in 1..Len(pairs) : hn = pairs[i][1] \/ hn = pairs[i][2]}
         IN  IF with = {} THEN None
             ELSE LET i == CHOOSE k \in with : \A l \in with : k <= l
                  IN  IF hn = pairs[i][1] THEN Some(pairs[i][2]) ELSE Some(pairs[i][1])

\* Every requires names a resource of its host and every pair names two hosts
\* of the configuration.
WellFormed(c) ==
    /\ c.readable
    /\ ~Unresolved(c)
    /\ c.failover_pairs # None =>
          \A i \in 1..Len(c.failover_pairs[1]) :
              \A k \in 1..2 :
                  c.failover_pairs[1][i][k] \in
                      {c.hosts[j].hostname : j \in 1..Len(c.hosts)}

\* C17: a configuration whose references resolve is assembled, and in the
\* assembled cluster the failover host of every resource is the host paired
\* with its home host (in either position), absent when there is no
\* failover_pairs section or the home host is in no pair; every resource of a
\* group has the home and failover host of the group's root.
C17_FailoverIsPartner ==
    (cluster.state # "none" /\ WellFormed(config)) =>
        /\ cluster.state = "ok"
        /\ \A r \in DOMAIN cluster.dependents :
              cluster.failover[r] = StatedPartner(config, cluster.home[r])
        /\ \A g \in 1..Len(cluster.groups) :
              LET members == LevelOrder(cluster.dependents, <<cluster.groups[g]>>)
              IN  \A i \in 1..Len(members) :
                      /\ cluster.home[members[i]] = cluster.home[cluster.groups[g]]
                      /\ cluster.failover[members[i]] = cluster.failover[cluster.groups[g]]

\* The host the contract selects for a call, if there is one.
StatedHost(c) ==
    IF c.loc = "Home" THEN Some(cluster.home[c.r]) ELSE cluster.failover[c.r]

\* The operations of the connected calls ms that the contract sends to h.
RECURSIVE ReachedBy(_, _)
ReachedBy(ms, h) ==
    IF ms = <<>> THEN <<>>
    ELSE (IF Head(ms).connected /\ StatedHost(Head(ms)) = Some(h)
          THEN <<<<Head(ms).op, Head(ms).r>>>> ELSE <<>>) \o ReachedBy(Tail(ms), h)

\* C22: the agent of every host has received exactly the operations of the
\* calls whose selected host it is (home_node for Home, failover_node for
\* Away), in the order the calls were made; a call at Away on a resource
\* without a failover node reaches nobody.
C22_DeliveredToSelectedHost ==
    /\ \A i \in 1..Len(config.hosts) :
          agents[address(config.hosts[i].hostname)]
              = ReachedBy(made, config.hosts[i].hostname)
    /\ \A i \in 1..Len(made) :
          (made[i].loc = "Away" /\ cluster.failover[made[i].r] = None)
              => ~made[i].connected

C22_Witness ==
    /\ Len(made) = 2
    /\ made[1].loc = "Away" /\ made[1].connected
    /\ made[2].loc = "Home" /\ made[2].connected /\ made[2].op = "stop"
    /\ made[1].r = made[2].r
    /\ made[1].to # made[2].to
    /\ agents[made[1].to[1]] = <<<<made[1].op, made[1].r>>>>
    /\ agents[made[2].to[1]] = <<<<"stop", made[2].r>>>>

\* The OcfStatus of the exit codes 0 to 7 as the specification lists them;
\* every other code is ErrUnimplemented.
StatedOcfStatus ==
    <<"Success", "ErrGeneric", "ErrArgs", "ErrUnimplemented", "ErrPerm",
      "ErrInstalled", "ErrConfigured", "ErrNotRunning">>

StatedFrom(code) ==
    IF code \in 0..(Len(StatedOcfStatus) - 1) THEN StatedOcfStatus[code + 1]
    ELSE "ErrUnimplemented"

\* C23: a wrapper returns Ok(the OcfStatus of the exit code) when the agent
\* replied Ok, Ok(ErrGeneric) when the agent replied Err(message),
\* Ok(ErrUnimplemented) when the reply is not in the schema, and Err exactly
\* when the transport failed.
C23_WrapperResult ==
    (input[1] = "wrapper" /\ output # None) =>
        LET o == input[2][2]
            reply == AgentOperation(o)
            res == output[1]
        IN  /\ reply[1] = "ok" => res = [ok |-> TRUE, st |-> StatedFrom(reply[2])]
            /\ reply[1] = "err" => res = [ok |-> TRUE, st |-> "ErrGeneric"]
            /\ o[1] = "schema" => res = [ok |-> TRUE, st |-> "ErrUnimplemented"]
            /\ ~res.ok <=> o[1] = "transport"

C23_Witness ==
    /\ input[1] = "wrapper"
    /\ input[2][1] = "Stop"
    /\ AgentOperation(input[2][2])[1] = "err"
    /\ output = Some([ok |-> TRUE, st |-> "ErrGeneric"])

\* C24: with a fence agent, do_fence(On) and do_fence(Off) succeed if and
\* only if the agent was spawned, was written the command bytes and exited
\* with status 0; do_fence(Status) does not succeed and spawns nothing.
C24_FenceSucceedsIffExitZero ==
    (input[1] = "do_fence" /\ output # None /\ input[2].fence_agent # None) =>
        LET run == input[2].run
            ret == output[1]
        IN  /\ input[2].command \in {"On", "Off"} =>
                  (ret.res = "Ok" <=> (run.stage = "exited" /\ run.code = 0))
            /\ input[2].command = "Status" => (ret.res # "Ok" /\ ~ret.spawned)

Reported(p) == \E i \in 1..Len(proc.stderr) : proc.stderr[i][2] = p

\* C26: when the configuration file cannot be read or parsed, the process
\* has exited with a non-zero status once main has run, the path of the file
\* is reported, no RPC was issued and the socket was not bound; when the
\* socket cannot be bound, the process has exited with status 1 and the path
\* of the socket is reported.
C26_StartupErrorsExit ==
    /\ (~config.readable /\ proc.pc # "main") =>
          /\ proc.pc = "exited"
          /\ proc.exit # None /\ proc.exit # Some(0)
          /\ Reported(ConfigPath)
          /\ proc.rpcs = 0
          /\ ~proc.bound
    /\ proc.bindErr =>
          /\ proc.pc = "exited"
          /\ proc.exit = Some(1)
          /\ Reported(SocketPath)

C26_Witness ==
    /\ ~config.readable
    /\ proc.pc = "exited"
    /\ proc.exit = Some(1)
    /\ proc.stderr = <<<<"Could not open config file", ConfigPath>>>>

\* The fence agent of a run did not bring the action about.
FenceFailed(run) == ~(run.stage = "exited" /\ run.code = 0)

\* `halo power on|off` with host names, each of which can be fenced: the
\* agent named on the command line is supported, or the configuration is
\* read and gives every named host a fence agent.
Fenceable(a) ==
    /\ a.action \in {"On", "Off"}
    /\ a.hostnames # <<>>
    /\ a.fence_agent # None => a.fence_agent = Some("powerman")
    /\ a.fence_agent = None =>
          /\ a.cl[1] = "ok"
          /\ \A i \in 1..Len(a.hostnames) :
                /\ a.hostnames[i] \in DOMAIN a.cl[2]
                /\ a.cl[2][a.hostnames[i]] # None

\* C27: `halo power on|off` ends with exit status 1 when the fencing of at
\* least one named host fails, with the agent of the command line and with
\* the agents of the configuration alike; `halo start` ends with exit
\* status 1 when a Start RPC does not return Success.
C27_FailureGivesExit1 ==
    /\ (input[1] = "power" /\ output # None /\ Fenceable(input[2])
          /\ \E i \in 1..Len(input[2].hostnames) :
                FenceFailed(input[2].runs[input[2].hostnames[i]]))
          => output[1].exit = 1
    /\ (input[1] = "start" /\ output # None /\ input[2].cl = "ok"
          /\ \E i \in DOMAIN input[2].outs : input[2].outs[i] # <<"exit", 0>>)
          => output[1].exit = 1

\* C28: get_worst returns Unknown for the empty list and otherwise a member
\* of the list that no member precedes in the stated order; the result is
\* Unknown or a member of the list.
C28_GetWorstIsLeast ==
    (input[1] = "get_worst" /\ output # None) =>
        LET list == input[2]
            worst == output[1]
        IN  /\ list = <<>> => worst = "Unknown"
            /\ list # <<>> =>
                  /\ worst \in SeqToSet(list)
                  /\ \A i \in 1..Len(list) : StatedRank(worst) <= StatedRank(list[i])
            /\ worst = "Unknown" \/ worst \in SeqToSet(list)

C28_Witness ==
    /\ input = <<"get_worst", <<"RunningOnHome", "RunningOnAway">>>>
    /\ output = Some("RunningOnAway")

\* The position of a resource in a traversal and its distance from the root.
PositionIn(seq, r) == CHOOSE i \in 1..Len(seq) : seq[i] = r
Depth(r) == Cardinality(Ancestors(r))

\* C29: resources() yields every resource of the tree exactly once, a
\* parent before its children, siblings in the order of the parent's
\* dependents list, and level by level (breadth first).
C29_BfsEnumeratesOnce ==
    (input[1] = "resources" /\ output # None) =>
        LET seq == output[1]
        IN  /\ Len(seq) = Cardinality(Resources)
            /\ SeqToSet(seq) = Resources
            /\ \A r \in Resources \ {root} :
                  PositionIn(seq, Parent(r)) < PositionIn(seq, r)
            /\ \A p \in Resources : \A i, j \in 1..Len(dependents[p]) :
                  i < j => PositionIn(seq, dependents[p][i])
                              < PositionIn(seq, dependents[p][j])
            /\ \A i, j \in 1..Len(seq) : i < j => Depth(seq[i]) <= Depth(seq[j])

C29_Witness ==
    /\ input = <<"resources", TreeDeep>>
    /\ output = Some(<<1, 3, 2, 4>>)

\* C30: the conversion gives the stated status for the codes 0 to 7 and
\* ErrUnimplemented for every other code, and no two codes of 0 to 7 give
\* the same status.
C30_ExitCodeConversion ==
    (input[1] = "from" /\ output # None) =>
        /\ output[1] = StatedFrom(input[2])
        /\ \A c \in 0..7 : (c # input[2] /\ input[2] \in 0..7) =>
              OcfStatusFrom(c) # output[1]

C30_Witness ==
    /\ input = <<"from", 0 - 1>>
    /\ output = Some("ErrUnimplemented")

\* C31: the bytes the reads have copied out are the first bytes written,
\* each once and in write order; no read returns zero bytes; and whenever
\* no lock of the Buffer is held, read_idx + new_data_n is the number of
\* bytes written and read_idx the number of bytes copied out.
C31_BufferDeliversOnceInOrder ==
    /\ Len(buf.got) <= Len(buf.data)
    /\ buf.got = SubSeq(buf.data, 1, Len(buf.got))
    /\ \A i \in 1..Len(buf.rets) : buf.rets[i] > 0
    /\ (\A m \in DOMAIN buf.mutex : buf.mutex[m] = Free) =>
          /\ buf.read_idx + buf.new_data_n = Len(buf.data)
          /\ buf.read_idx = Len(buf.got)

C31_Witness ==
    /\ buf.data = <<<<"w1", 1>>, <<"w2", 1>>, <<"w2", 2>>>>
    /\ buf.got = buf.data
    /\ buf.rets = <<1, 2>>
    /\ buf.waiting = {"r1"}
    /\ \A m \in DOMAIN buf.mutex : buf.mutex[m] = Free

\* The thread t waits for a lock another thread holds.
C32_Blocked(t) ==
    /\ lk.todo[t] # <<>>
    /\ Head(lk.todo[t]).step = "lock"
    /\ lk.holder[Head(lk.todo[t]).lock] # Free

C33_TicksWhileOtherWaits ==
    \E g, h \in DOMAIN grp.ha :
        /\ grp.ticks[g] = MaxTicks
        /\ grp.ticks[h] = 0
        /\ grp.at[h] = "awaiting"

\* C34: when the script of the resource agent was ended by a signal, so
\* that there is no exit code, the wrapper returns Err to its caller and not
\* an OcfStatus.
C34_SignalGivesErr ==
    (input[1] = "wrapper" /\ output # None /\ input[2][2][1] = "signal") =>
        ~output[1].ok

\* The configuration names every host once: the hostnames differ, and so
\* do the targets of the test fence agents.
C35_HostsDiffer ==
    \A i, j \in DOMAIN input[2] :
        i # j =>
            /\ input[2][i].hostname # input[2][j].hostname
            /\ \/ input[2][i].fence_agent = None
               \/ input[2][i].fence_agent[1].agent # "fence_test"
               \/ input[2][i].fence_agent # input[2][j].fence_agent

\* C35: after assembly the host directory has one entry per configured
\* host, and get_host(h.id()) is the host h for every configured host h,
\* also when hosts have the same name and different ports.
C35_DirectoryAddressesEveryHost ==
    (input[1] = "hosts" /\ output # None /\ C35_HostsDiffer) =>
        LET dir == output[1]
        IN  /\ Cardinality(DOMAIN dir) = Len(input[2])
            /\ \A i \in DOMAIN input[2] :
                 LET h == Host_from_config(input[2][i])
                 IN  /\ Host_id(h) \in DOMAIN dir
                     /\ dir[Host_id(h)] = h

\* The length of the next unread line of d, its newline included; 0 when
\* no line is complete.
C36_LineLen(d) ==
    IF \E k \in 1..Len(d) : d[k] = Newline
    THEN CHOOSE k \in 1..Len(d) :
            d[k] = Newline /\ \A j \in 1..(k - 1) : d[j] # Newline
    ELSE 0

\* C36: when the next unread line, newline included, is at most buf.len()
\* bytes long, readln returns its length n with buf[0..n] the line; readln
\* panics only when the line does not fit in the buffer.
C36_ReadlnReturnsFittingLine ==
    (input[1] = "readln" /\ output # None) =>
        LET d == input[2].data
            len == C36_LineLen(d)
            ret == output[1]
        IN  /\ (len > 0 /\ len <= input[2].outlen) =>
                  /\ ret.res = "Ok"
                  /\ ret.n = len
                  /\ ret.buf = SubSeq(d, 1, len)
            /\ ret.res = "panic" =>
                  \/ len > input[2].outlen
                  \/ len = 0 /\ Len(d) >= input[2].outlen

\* The positions of the event e in the history of the start command.
C37_At(e) == {k \in 1..Len(cmd.events) : cmd.events[k] = e}

\* The Start of r was sent only after the Start of every resource of S had
\* returned.
C37_After(r, S) ==
    \A k \in C37_At(<<"issue", r>>) :
        \A q \in S : \E j \in C37_At(<<"done", q>>) : j < k

\* The Starts are sent in three phases: no MGS Start before all zpool
\* Starts have returned, no Start of another Lustre target before the
\* Start of the MGS has returned.
C37_Phases ==
    LET rs == cmd.resources
        mgs == {i \in lustre_resources(rs) : rs[i].target = "mgs"}
    IN  /\ \A m \in mgs : C37_After(m, zpool_resources(rs))
        /\ \A t \in lustre_resources_no_mgs(rs) :
              C37_After(t, zpool_resources(rs) \cup SeqToSet(get_mgs(rs)))

C38_Configured(c) ==
    UNION {{<<c.hosts[i].hostname, id>> : id \in DOMAIN c.hosts[i].resources} :
             i \in 1..Len(c.hosts)}

\* C38: in every cluster that was assembled without an error each
\* configured resource appears exactly once in cluster.resources(), also
\* when `requires` edges form a cycle or a resource requires itself.
C38_EveryResourceEnumeratedOnce ==
    cluster.state = "ok" =>
        LET en == cluster_resources(cluster)
        IN  \A r \in C38_Configured(config) :
                Cardinality({k \in 1..Len(en) : en[k] = r}) = 1

\* The RPCs sent in a step of the engine: all the RPCs of the tick when
\* the step begins a tick, otherwise those added to the tick's RPCs.
C39_Issued ==
    IF pc \in {"start", "loop", "sleep"} /\ pc' # pc THEN rpcs' ELSE rpcs' \ rpcs

\* C39: in the non-HA manage loop every RPC goes to Home and is a Monitor or
\* a Start; the RPCs of one tick are all Monitors or all Starts; Monitors
\* are sent, to every member, only with the aggregate Unknown or
\* RunningOnHome at the start of the tick, and Starts only with the
\* aggregate Stopped, so that while the aggregate is Stopped no member is
\* monitored.
C39_MonitorsOrStartsPerTick ==
    [][NonHaManage =>
        /\ \A x \in rpcs' : x[1] \in {"Monitor", "Start"} /\ x[2] = "Home"
        /\ \/ \A x \in rpcs' : x[1] = "Monitor"
           \/ \A x \in rpcs' : x[1] = "Start"
        /\ C39_Issued # {} =>
              \/ /\ overall \in {"Unknown", "RunningOnHome"}
                 /\ C39_Issued = {<<"Monitor", "Home", r>> : r \in Resources}
              \/ /\ overall = "Stopped"
                 /\ C39_Issued \subseteq {<<"Start", "Home", r>> : r \in Resources}]_vars

\* The aggregate stayed Stopped after a Start was answered with an error
\* status; in the next tick Starts are sent again, for a dependent as well,
\* and no Monitor.
C39_Witness ==
    /\ NonHaManage
    /\ pc = "starting"
    /\ overall = "Stopped"
    /\ faults > 0
    /\ \E r \in Resources : status[r] = "RunningOnHome"
    /\ \E r \in Resources \ {root} : <<"Start", "Home", r>> \in rpcs
    /\ \A x \in rpcs : x[1] = "Start"

\* C40: every status in a snapshot of the control channel is a status the
\* resource of that entry held at some moment between the receipt of the
\* request and its reply.
C40_SnapshotStatusesWereHeld ==
    \A i \in 1..Len(mgmt.entries) :
        \E held \in mgmt.seen :
            mgmt.entries[i].status =
                <<"Status", held[cluster_resources(cluster)[i]]>>

\* A reply whose statuses were never held together: the snapshot is not
\* atomic across resources.
C40_Witness ==
    /\ mgmt.pc = "replied"
    /\ Len(mgmt.entries) > 1
    /\ ~\E held \in mgmt.seen :
          \A i \in 1..Len(mgmt.entries) :
              mgmt.entries[i].status =
                  <<"Status", held[cluster_resources(cluster)[i]]>>

====
